---- MODULE Spec2Model ----
(***************************************************************************)
(* OmniMessage-Gateway: the dispatch engine of gateway/router.py           *)
(* (RoutingEngine) over the message model of gateway/models.py.            *)
(*                                                                         *)
(* Messages are objects on a heap (msgs): the engine mutates the object it *)
(* is handed, and a middleware or a rule transform may hand back another   *)
(* object.  A dispatch is a coroutine; it is modelled by a task whose pc   *)
(* is the suspension point it waits at: an async middleware, the adapter   *)
(* call, the backoff sleep.  Everything between two suspension points is   *)
(* one atomic step, as on the single-threaded event loop.                  *)
(***************************************************************************)
EXTENDS Integers, Sequences, FiniteSets, TLC

\* ---------------------------------------------------------------- bounds
MaxTotal == 2           \* dispatches started in one behaviour
MaxRetries == 1         \* max_retries of engine and message while dispatches interleave
MaxDeepRetries == 3     \* max_retries of engine and message, one dispatch at a time
MaxRetryDelay == 2      \* RoutingEngine(retry_delay = 1..MaxRetryDelay), in ticks
MaxRuleList == 3        \* length of the rule list in the rule-table specification
MaxClock == 3           \* the last reading of time.monotonic(), in seconds
MaxCalls == 3           \* calls into the rate limiter in one behaviour
MaxCapacity == 2        \* BucketConfig.capacity of a bucket under test
MaxRuns == 2            \* max_runs of a recurring entry
MaxRunCount == 3        \* the runs of one entry in one behaviour
MaxUtc == 3603          \* the last reading of datetime.utcnow(), in seconds
MaxWorkers == 3         \* worker tasks created in one behaviour
MaxRecords == 3         \* calls into the analytics collector in one behaviour
MaxPollClock == 3       \* the same, where the clock runs second by second

\* ------------------------------------------------------- program constants
DefaultMaxRetries == 3  \* Message.max_retries default
DefaultRetryDelay == 1  \* RoutingEngine.retry_delay default (1.0 s), in ticks
Hour == 3600            \* interval_seconds of the recurring entry of the tests

Channels == {"telegram", "slack"}
Tasks == {1, 2}         \* the coroutines of route that are alive together
MaxMsgs == 2 * MaxTotal \* Message objects ever constructed, copies included
NoMsg == 0

\* MessageStatus
PENDING == "pending"
SENDING == "sending"
SENT == "sent"
RETRYING == "retrying"
DEAD == "dead"

VARIABLES
    msgs,               \* heap of Message objects, by object identity 1..Len(msgs)
    rules,              \* RoutingEngine.rules
    added,              \* history: the rules of the list in the order add_rule got them
    middleware,         \* RoutingEngine._middleware
    handlers,           \* keys of RoutingEngine._channel_handlers
    max_retries,        \* RoutingEngine.max_retries
    retry_delay,        \* RoutingEngine.retry_delay
    dead_letter_queue,  \* RoutingEngine.dead_letter_queue
    stats,              \* RoutingEngine._stats
    tasks,              \* the coroutines of route / retry_dead_letter / broadcast
    templates,          \* TemplateEngine._string_templates, the names registered
    now,                \* time.monotonic(), in seconds
    limiter,            \* the RateLimiter object: _limits, _buckets, _lock
    buckets,            \* heap of TokenBucket objects, by object identity
    threads,            \* the threads that call into the rate limiter
    utcnow,             \* datetime.utcnow(), in seconds
    scheduler,          \* the MessageScheduler object, its entries in it
    jobs,               \* the coroutines of the scheduler: process_due, the
                        \* worker task, the callers of start and stop
    store,              \* MessageStore: the rows of the table messages
    cli,                \* the coroutines of the command line: cmd_send
    gathers,            \* the broadcast call that awaits its gather
    codec,              \* a Message, its to_dict() and the from_dict() of that
    analytics,          \* the AnalyticsCollector object and the threads in it
    renderer,           \* the TemplateEngine object with its jinja2 environment
    api,                \* the latest call of a dead-letter operation, its result
    polls               \* the calls of process_due that overlap, by caller

vars == <<msgs, rules, added, middleware, handlers, max_retries, retry_delay,
          dead_letter_queue, stats, tasks, templates, now, limiter, buckets,
          threads, utcnow, scheduler, jobs, store, cli, gathers,
          codec, analytics, renderer, api, polls>>

\* the objects that stand by themselves
LabVars == <<codec, analytics, renderer, api, polls>>

\* what the engine and the rate limiter own no part of
ServiceVars == <<utcnow, scheduler, jobs, store, cli, gathers, LabVars>>

EngineVars == <<msgs, rules, added, middleware, handlers, max_retries,
                retry_delay, dead_letter_queue, stats, tasks, templates>>

LimiterVars == <<now, limiter, buckets, threads>>

\* RoutingRule(name, condition, target_channel, priority, transform, enabled).
\* condition: "always" is lambda m: True, "telegram" is
\* lambda m: m.to_channel == TELEGRAM, "marked" is lambda m: "a" in m.content,
\* "raises" is a predicate that raises.
\* transform: "none", "inplace" (mutates a field that is not modelled and
\* returns its argument), "prefix" (puts "URGENT" in front of the content and
\* returns its argument) or "copy" (returns another Message object).
RoutingRule(name, cond, target, prio, transform, enabled) ==
    [name |-> name, condition |-> cond, target_channel |-> target,
     priority |-> prio, transform |-> transform, enabled |-> enabled]

\* ------------------------------------------------------------ data model
\* Message(from_channel, to_channel, content, target, max_retries = ...)
\* content is the sequence of the marks that middleware and transforms have
\* written into the text
Message(ch, mr) ==
    [to_channel |-> ch, target |-> "target", content |-> <<>>, status |-> PENDING,
     retry_count |-> 0, max_retries |-> mr, sent_at |-> FALSE,
     last_error |-> "None", template |-> ""]

NoError == [kind |-> "none", n |-> 0, text |-> "None"]

\* SendResult(success, message_id, channel, error, retry_count)
SendResult(success, m, ch, err, rc) ==
    [success |-> success, message |-> m, channel |-> ch, error |-> err,
     retry_count |-> rc]

NoResult == [success |-> FALSE, message |-> NoMsg, channel |-> "none",
             error |-> NoError, retry_count |-> 0]

\* DeadLetterEntry(message, error, retry_count)
DeadLetterEntry(m, err, rc) == [message |-> m, error |-> err, retry_count |-> rc]

\* history: what the latest adapter call of the dispatch came back with
NoOutcome == [kind |-> "none", error |-> "None"]

IdleTask ==
    [pc |-> "idle", orig |-> NoMsg, msg |-> NoMsg, mw |-> 0, channel |-> "none",
     attempt |-> 0, max_attempts |-> 0, last_error |-> "None", calls |-> 0,
     delay |-> 0, elapsed |-> 0, outcome |-> NoOutcome, result |-> NoResult,
     retried |-> FALSE]

\* ---- the rate limiter's objects (rate_limiter.py) ----

LimiterThreads == {1, 2}    \* the threads that call into the rate limiter

\* BucketConfig(capacity, refill_rate, burst, cooldown_ms): tokens, tokens
\* per second, tokens, milliseconds
BucketConfig(capacity, refill_rate, burst, cooldown_ms) ==
    [capacity |-> capacity, refill_rate |-> refill_rate, burst |-> burst,
     cooldown_ms |-> cooldown_ms]

\* the fill of a bucket at its construction: the configured capacity plus
\* the burst
InitialTokensWithBurst(config) == config.capacity + config.burst

\* TokenBucket.__init__: self._tokens = self.config.capacity
InitialTokens(config) == config.capacity

\* TokenBucket(config), constructed when time.monotonic() reads clock.
\* lock is the thread that holds self._lock, 0 when it is free.
TokenBucket(config, clock) ==
    [config |-> config, tokens |-> InitialTokens(config), last_refill |-> clock,
     last_consume |-> 0, lock |-> 0, total_consumed |-> 0, total_rejected |-> 0]

\* no RateLimiter has been constructed: Gateway.__init__ and
\* RoutingEngine.__init__ construct none
NoLimiter == [limits |-> <<>>, map |-> {}, lock |-> 0, global |-> 0]

\* a thread that is not inside a call of the rate limiter
\* A name (channel, target, bucket key) is a sequence of parts, ":" being a
\* part of its own; the empty name stands for None and for "".
\* op is the call the thread is in and pc its position in it, bucket the
\* TokenBucket it has in hand, now its local variable of try_consume, result
\* what the call returned, calls the number of calls the thread has made,
\* keys the local keys_to_remove of reset.  snap is history: self._buckets as
\* the reset in progress found it; after is history: whether the call before
\* this one was a reset that returned, and of which channel.  trace is history: for every try_consume the call
\* has made, the bucket, what it answered, and how many calls that bucket had
\* answered before.
IdleThread ==
    [pc |-> "idle", op |-> "none", channel |-> <<>>, target |-> <<>>,
     key |-> <<>>, bucket |-> 0, now |-> 0, stage |-> "none",
     result |-> FALSE, trace |-> <<>>, calls |-> 0, keys |-> <<>>,
     snap |-> {}, after |-> [reset |-> FALSE, channel |-> <<>>]]

\* ---- the scheduler's, the store's and the command line's objects ----

\* no MessageScheduler has been constructed
\* the ids of the entries of one scheduler (uuid4 in the code)
EntryIds == {1, 2}

NoScheduler ==
    [entries |-> <<>>, send_fn |-> FALSE, running |-> FALSE, task |-> 0,
     callbacks |-> <<>>]

\* no process_due is under way
NoPoll == [pc |-> "idle", due |-> <<>>, pending |-> {}, result |-> 0]

\* the coroutines that await process_due side by side: 1 is the background
\* worker, 2 a direct caller
PollCallers == {1, 2}

\* a process_due that has not been called: due is its snapshot, unstarted
\* the tasks of its gather that have not run yet, pending those suspended in
\* send_fn
IdlePoll == [pc |-> "idle", due |-> <<>>, unstarted |-> <<>>, pending |-> {},
             result |-> 0]

NoPolls == [p \in PollCallers |-> IdlePoll]

\* no coroutine of the scheduler exists
NoJobs == [poll |-> NoPoll, workers |-> <<>>, callers |-> <<>>, stops |-> <<>>]

\* no command is running
NoCommand == [pc |-> "idle", msg |-> 0, task |-> 0]

\* no message has been serialised
NoCodec == [pc |-> "idle"]

\* the threads that call into the analytics collector
AnalyticsThreads == {1, 2}

\* a thread outside the collector: seen is what its latest reader returned
IdleReader ==
    [pc |-> "idle", op |-> "none", channel |-> "none",
     seen |-> [total_sent |-> 0, total_failed |-> 0,
               by_channel |-> [c \in Channels |-> [sent |-> 0, failed |-> 0]]]]

\* AnalyticsCollector(): the counters, the lock (0 is free, else the thread
\* that holds it); recorded counts the record calls that have returned
\* since the latest reset (history), calls the calls begun
NoAnalytics ==
    [total_sent |-> 0, total_failed |-> 0,
     channel_sent |-> [c \in Channels |-> 0],
     channel_failed |-> [c \in Channels |-> 0],
     lock |-> 0,
     recorded |-> [sent |-> 0, failed |-> 0], calls |-> 0,
     threads |-> [t \in AnalyticsThreads |-> IdleReader]]

\* the template names and the template strings registered under them;
\* Absent is a key that a dict does not hold
LoaderNames == {"msg.txt", "note"}
TemplateTexts == {"MEMORY version", "MEMORY version 2"}
Absent == "absent"

\* no template engine of its own exists
NoRenderer ==
    [pc |-> "idle", string_templates |-> [n \in LoaderNames |-> Absent],
     cache |-> [n \in LoaderNames |-> Absent], files |-> {},
     op |-> "none", name |-> "none", result |-> "none"]

\* no dead-letter operation has been called
NoCall == [op |-> "none", limit |-> 0, result |-> <<>>, count |-> 0]

\* no broadcast awaits
NoGather == [pc |-> "idle", slots |-> <<>>, channels |-> <<>>, meta |-> {},
             done |-> <<>>, results |-> <<>>]

\* a slot is free before a coroutine runs in it, after route has returned
\* ("done") and after an exception has left route ("raised")
Free(t) == tasks[t].pc \in {"idle", "done", "raised"}

\* the task slots are interchangeable: a new coroutine takes the lowest
LowestFree(t) == Free(t) /\ \A u \in Tasks : u < t => ~Free(u)

InFlight(m) == \E t \in Tasks : ~Free(t) /\ m \in {tasks[t].orig, tasks[t].msg}

\* dispatches begun, the copies of a broadcast not yet started included
Begun == stats.total + Cardinality({t \in Tasks : tasks[t].pc = "created"})

\* ------------------------------------------------------------- rule table
\* condition(message): "true", "false" or "raise"
Condition(rule, msg) ==
    CASE rule.condition = "always" -> "true"
      [] rule.condition = "telegram" ->
            IF msg.to_channel = "telegram" THEN "true" ELSE "false"
      [] rule.condition = "marked" ->
            IF \E i \in 1..Len(msg.content) : msg.content[i] = "a"
            THEN "true" ELSE "false"
      [] OTHER -> "raise"

\* RoutingRule.matches
RuleMatches(rule, msg) ==
    IF ~rule.enabled THEN FALSE
    ELSE LET c == Condition(rule, msg) IN
         IF c = "raise" THEN FALSE ELSE c = "true"

\* list.sort(key = priority, reverse = True) places an element behind every
\* element that does not compare lower: the sort is stable.
InsertAhead(sorted, r) ==
    LET k == Cardinality({i \in 1..Len(sorted) : sorted[i].priority > r.priority})
    IN SubSeq(sorted, 1, k) \o <<r>> \o SubSeq(sorted, k + 1, Len(sorted))

InsertStable(sorted, r) ==
    LET k == Cardinality({i \in 1..Len(sorted) : sorted[i].priority >= r.priority})
    IN SubSeq(sorted, 1, k) \o <<r>> \o SubSeq(sorted, k + 1, Len(sorted))

RECURSIVE SortByPriority(_)
SortByPriority(s) ==
    IF s = <<>> THEN <<>>
    ELSE InsertStable(SortByPriority(SubSeq(s, 1, Len(s) - 1)), s[Len(s)])

\* RoutingEngine.add_rule
add_rule(rule) ==
    /\ rules' = SortByPriority(Append(rules, rule))
    /\ added' = Append(added, rule)
    /\ UNCHANGED <<msgs, middleware, handlers, max_retries, retry_delay,
                   dead_letter_queue, stats, tasks,
                   templates, now, limiter, buckets, threads, ServiceVars>>

WithoutName(s, name) == SelectSeq(s, LAMBDA r : r.name # name)

\* RoutingEngine.remove_rule
remove_rule(name) ==
    /\ rules' = WithoutName(rules, name)
    /\ added' = WithoutName(added, name)
    /\ UNCHANGED <<msgs, middleware, handlers, max_retries, retry_delay,
                   dead_letter_queue, stats, tasks,
                   templates, now, limiter, buckets, threads, ServiceVars>>

\* RoutingEngine.match_rule: the index in rules of the first rule that
\* matches, 0 for None
RECURSIVE MatchFrom(_, _, _)
MatchFrom(rs, msg, i) ==
    IF i > Len(rs) THEN 0
    ELSE IF RuleMatches(rs[i], msg) THEN i
    ELSE MatchFrom(rs, msg, i + 1)

match_rule(msg) == MatchFrom(rules, msg, 1)

\* ------------------------------------------------------------ the pipeline
\* A pipeline step works on explicit values of the heap and the counters, so
\* that route, retry_dead_letter and the resumption of an async middleware
\* share it.  It yields [msgs, stats, dlq, task].

\* A middleware is "sync" (mutates a field that is not modelled and returns
\* its argument), "a" or "b" (appends its mark to the content and returns
\* its argument), "copy" (returns another Message object), "async" (a
\* coroutine function: the dispatch is suspended in it, and it returns its
\* argument) or "raises" (raises an exception, which nothing in route
\* catches).
MarkKinds == {"a", "b"}
MiddlewareKinds == {"sync", "copy", "async", "raises"} \cup MarkKinds

\* RoutingEngine._apply_middleware from chain position i on:
\* [msgs, msg, stop, raised], stop the position of the async middleware
\* awaited or of the middleware that raised, 0 when the chain is through
RECURSIVE ApplyMiddleware(_, _, _)
ApplyMiddleware(ms, m, i) ==
    IF i > Len(middleware)
    THEN [msgs |-> ms, msg |-> m, stop |-> 0, raised |-> FALSE]
    ELSE CASE middleware[i] = "sync" -> ApplyMiddleware(ms, m, i + 1)
           [] middleware[i] \in MarkKinds ->
                ApplyMiddleware([ms EXCEPT ![m].content = Append(@, middleware[i])],
                                m, i + 1)
           [] middleware[i] = "copy" ->
                ApplyMiddleware(Append(ms, ms[m]), Len(ms) + 1, i + 1)
           [] middleware[i] = "raises" ->
                [msgs |-> ms, msg |-> m, stop |-> i, raised |-> TRUE]
           [] OTHER -> [msgs |-> ms, msg |-> m, stop |-> i, raised |-> FALSE]

\* message.max_retries or self.max_retries
MaxAttemptsOwn(msg) == msg.max_retries

MaxAttempts(msg) ==
    IF msg.max_retries # 0 THEN msg.max_retries ELSE max_retries

\* the head of the retry loop: retry_count and status of attempt k
AttemptStatusAlwaysSending(k) == SENDING

AttemptStatus(k) == IF k = 0 THEN SENDING ELSE RETRYING

BeginAttempt(ms, m, k) ==
    [ms EXCEPT ![m].retry_count = k, ![m].status = AttemptStatus(k)]

\* self.retry_delay * (2 ** attempt)
BackoffDelayLinear(attempt) == retry_delay * (attempt + 1)

BackoffDelay(attempt) == retry_delay * (2 ^ attempt)

Bump(st, key) == [st EXCEPT ![key] = @ + 1]

\* the tail of _send_with_retry: every attempt failed
DeadLetter(ms, st, dlq, T) ==
    LET m == T.msg
        n == T.max_attempts
        err == T.last_error
    IN [msgs |-> [ms EXCEPT ![m].status = DEAD, ![m].last_error = err],
        stats |-> Bump(Bump(st, "dead"), "errors"),
        dlq |-> Append(dlq, DeadLetterEntry(m, err, n)),
        task |-> [T EXCEPT !.pc = "done", !.delay = 0, !.elapsed = 0,
                    !.result = SendResult(FALSE, m, T.channel,
                        [kind |-> "all_failed", n |-> n + 1, text |-> err], n)]]

\* message = rule.transform(message), for the rule at index r of rules (0:
\* no rule matched): [msgs, msg]
Transform(ms, m, r) ==
    CASE r > 0 /\ rules[r].transform = "copy" ->
            [msgs |-> Append(ms, ms[m]), msg |-> Len(ms) + 1]
      [] r > 0 /\ rules[r].transform = "prefix" ->
            [msgs |-> [ms EXCEPT ![m].content = <<"URGENT">> \o @], msg |-> m]
      [] OTHER -> [msgs |-> ms, msg |-> m]

\* target_channel = rule.target_channel, or message.to_channel without rule
TargetChannelOfMessage(r, msg) == msg.to_channel

TargetChannel(r, msg) ==
    IF r > 0 THEN rules[r].target_channel ELSE msg.to_channel

\* if not handler: count the error and return the failure
NoHandlerDeadLetters(ms, st, dlq, T) ==
    [msgs |-> [ms EXCEPT ![T.msg].status = DEAD],
     stats |-> Bump(st, "errors"),
     dlq |-> Append(dlq, DeadLetterEntry(T.msg, T.channel, 0)),
     task |-> [T EXCEPT !.pc = "done",
                  !.result = SendResult(FALSE, T.msg, T.channel,
                      [kind |-> "no_handler", n |-> 0, text |-> T.channel], 0)]]

NoHandler(ms, st, dlq, T) ==
    [msgs |-> ms, stats |-> Bump(st, "errors"), dlq |-> dlq,
     task |-> [T EXCEPT !.pc = "done",
                  !.result = SendResult(FALSE, T.msg, T.channel,
                      [kind |-> "no_handler", n |-> 0, text |-> T.channel], 0)]]

\* route from rule matching on, up to the first adapter call
Dispatch(ms, st, dlq, T, m0) ==
    LET r == match_rule(ms[m0])
        tr == Transform(ms, m0, r)
        ms1 == tr.msgs
        m == tr.msg
        target == TargetChannel(r, ms1[m])
        T1 == [T EXCEPT !.msg = m, !.mw = 0, !.channel = target]
    IN IF target \notin handlers
       THEN NoHandler(ms1, st, dlq, T1)
       ELSE LET n == MaxAttempts(ms1[m])
                T2 == [T1 EXCEPT !.max_attempts = n, !.attempt = 0,
                                 !.last_error = ""]
            IN IF n + 1 <= 0
               THEN DeadLetter(ms1, st, dlq, T2)
               ELSE [msgs |-> BeginAttempt(ms1, m, 0), stats |-> st, dlq |-> dlq,
                     task |-> [T2 EXCEPT !.pc = "sending", !.calls = 1]]

\* route from middleware position i on
Continue(ms, st, dlq, T, m, i) ==
    LET c == ApplyMiddleware(ms, m, i)
    IN IF c.stop > 0
       THEN [msgs |-> c.msgs, stats |-> st, dlq |-> dlq,
             task |-> [T EXCEPT !.pc = IF c.raised THEN "raised" ELSE "middleware",
                                !.msg = c.msg, !.mw = c.stop]]
       ELSE Dispatch(c.msgs, st, dlq, T, c.msg)

\* RoutingEngine.route(message), run by task t up to its first suspension
RouteBody(t, ms, dlq, m, retried) ==
    LET T == [IdleTask EXCEPT !.orig = m, !.msg = m, !.retried = retried]
        out == Continue(ms, Bump(stats, "total"), dlq, T, m, 1)
    IN /\ Len(out.msgs) <= MaxMsgs
       /\ msgs' = out.msgs
       /\ stats' = out.stats
       /\ dead_letter_queue' = out.dlq
       /\ tasks' = [tasks EXCEPT ![t] = out.task]
       /\ UNCHANGED <<rules, added, middleware, handlers, max_retries, retry_delay,
                   templates, now, limiter, buckets, threads, ServiceVars>>

\* a caller constructs a Message and awaits route(message)
RouteNew(t, ch, mr) ==
    /\ LowestFree(t)
    /\ Begun < MaxTotal
    /\ RouteBody(t, Append(msgs, Message(ch, mr)), dead_letter_queue,
                 Len(msgs) + 1, FALSE)

\* a caller awaits route(message) on a message dispatched before.  A Message
\* is owned by the engine while it is dispatched: no caller hands the engine
\* a message that a dispatch still holds.
RouteAgain(t, m) ==
    /\ LowestFree(t)
    /\ Begun < MaxTotal
    /\ m \in 1..Len(msgs)
    /\ ~InFlight(m)
    /\ RouteBody(t, msgs, dead_letter_queue, m, FALSE)

\* what one await handler.send(message) comes back with: a SendResult with
\* success, a SendResult without (error a text or None), or an exception
AdapterOutcomes ==
    { [kind |-> "ok", error |-> "None"],
      [kind |-> "fail", error |-> "E1"],
      [kind |-> "fail", error |-> "None"],
      [kind |-> "raise", error |-> "E2"] }

\* last_error = result.error or "Unknown error"; last_error = str(e)
ErrorText(o) ==
    IF o.kind = "fail" /\ o.error = "None" THEN "Unknown error" ELSE o.error

\* the except and else branches of the loop body assign last_error
KeepFirstError(prev, o) == IF prev = "" THEN ErrorText(o) ELSE prev

LatestError(prev, o) == ErrorText(o)

\* message.status = SENT; message.sent_at = datetime.utcnow()
MarkSentNoStamp(ms, m) == [ms EXCEPT ![m].status = SENT]

MarkSent(ms, m) == [ms EXCEPT ![m].status = SENT, ![m].sent_at = TRUE]

\* the loop sleeps after every attempt, the last one included
SleepsAfterEvery(T) == TRUE

\* if attempt < max_attempts: await asyncio.sleep(delay)
SleepsAfter(T) == T.attempt < T.max_attempts

\* _send_with_retry resumes from await handler.send(message)
AdapterReturn(t, o) ==
    LET T == tasks[t]
        m == T.msg
    IN /\ T.pc = "sending"
       /\ UNCHANGED <<rules, added, middleware, handlers, max_retries, retry_delay,
                   templates, now, limiter, buckets, threads, ServiceVars>>
       /\ IF o.kind = "ok"
          THEN /\ msgs' = MarkSent(msgs, m)
               /\ stats' = Bump(Bump(stats, "sent"), "sent:" \o T.channel)
               /\ tasks' = [tasks EXCEPT ![t] = [T EXCEPT !.pc = "done",
                                !.outcome = o,
                                !.result = SendResult(TRUE, m, T.channel,
                                                      NoError, T.attempt)]]
               /\ UNCHANGED dead_letter_queue
          ELSE LET T1 == [T EXCEPT !.last_error = LatestError(@, o), !.outcome = o]
               IN IF SleepsAfter(T1)
                  THEN /\ tasks' = [tasks EXCEPT ![t] = [T1 EXCEPT !.pc = "backoff",
                                        !.delay = BackoffDelay(T.attempt),
                                        !.elapsed = 0]]
                       /\ UNCHANGED <<msgs, stats, dead_letter_queue>>
                  ELSE LET out == DeadLetter(msgs, stats, dead_letter_queue, T1)
                       IN /\ msgs' = out.msgs
                          /\ stats' = out.stats
                          /\ dead_letter_queue' = out.dlq
                          /\ tasks' = [tasks EXCEPT ![t] = out.task]

\* one tick of the event loop's clock passes for every sleeping dispatch
Tick ==
    /\ \E t \in Tasks : tasks[t].pc = "backoff" /\ tasks[t].elapsed < tasks[t].delay
    /\ tasks' = [t \in Tasks |->
                    IF tasks[t].pc = "backoff" /\ tasks[t].elapsed < tasks[t].delay
                    THEN [tasks[t] EXCEPT !.elapsed = @ + 1]
                    ELSE tasks[t]]
    /\ UNCHANGED <<msgs, rules, added, middleware, handlers, max_retries,
                   retry_delay, dead_letter_queue, stats,
                   templates, now, limiter, buckets, threads, ServiceVars>>

\* asyncio.sleep(delay) returns, no earlier than delay after it was called,
\* and the loop goes into its next attempt
Wake(t) ==
    LET T == tasks[t]
    IN /\ T.pc = "backoff"
       /\ T.elapsed >= T.delay
       /\ T.attempt < T.max_attempts
       /\ msgs' = BeginAttempt(msgs, T.msg, T.attempt + 1)
       /\ tasks' = [tasks EXCEPT ![t] = [T EXCEPT !.pc = "sending",
                        !.attempt = @ + 1, !.calls = @ + 1,
                        !.delay = 0, !.elapsed = 0]]
       /\ UNCHANGED <<rules, added, middleware, handlers, max_retries,
                      retry_delay, dead_letter_queue, stats,
                   templates, now, limiter, buckets, threads, ServiceVars>>

\* _apply_middleware resumes from await mw(message)
MiddlewareReturn(t) ==
    LET T == tasks[t]
        out == Continue(msgs, stats, dead_letter_queue, T, T.msg, T.mw + 1)
    IN /\ T.pc = "middleware"
       /\ Len(out.msgs) <= MaxMsgs
       /\ msgs' = out.msgs
       /\ stats' = out.stats
       /\ dead_letter_queue' = out.dlq
       /\ tasks' = [tasks EXCEPT ![t] = out.task]
       /\ UNCHANGED <<rules, added, middleware, handlers, max_retries, retry_delay,
                   templates, now, limiter, buckets, threads, ServiceVars>>

\* entry.message.status = PENDING; entry.message.retry_count = 0
ResetForRetryFailed(ms, m) ==
    [ms EXCEPT ![m].status = "failed", ![m].retry_count = 0]

ResetForRetryKeepCount(ms, m) == [ms EXCEPT ![m].status = PENDING]

\* the reset gives the message back as it was constructed
ResetForRetryAsNew(ms, m) ==
    [ms EXCEPT ![m].status = PENDING, ![m].retry_count = 0,
               ![m].content = <<>>, ![m].last_error = "None"]

ResetForRetry(ms, m) ==
    [ms EXCEPT ![m].status = PENDING, ![m].retry_count = 0]

RemoveAt(s, i) == SubSeq(s, 1, i - 1) \o SubSeq(s, i + 1, Len(s))

\* RoutingEngine.retry_dead_letter(index), index counted from 1 here
retry_dead_letter(t, index) ==
    /\ LowestFree(t)
    /\ IF index \in 1..Len(dead_letter_queue)
       THEN LET m == dead_letter_queue[index].message
            IN /\ Begun < MaxTotal
               /\ ~InFlight(m)
               /\ RouteBody(t, ResetForRetry(msgs, m),
                            RemoveAt(dead_letter_queue, index), m, TRUE)
       ELSE /\ tasks' = [tasks EXCEPT ![t] = [IdleTask EXCEPT !.pc = "done",
                                                  !.retried = TRUE]]
            /\ UNCHANGED <<msgs, rules, added, middleware, handlers, max_retries,
                           retry_delay, dead_letter_queue, stats,
                   templates, now, limiter, buckets, threads, ServiceVars>>

\* RoutingEngine.register_channel
register_channel(ch) ==
    /\ handlers' = handlers \cup {ch}
    /\ UNCHANGED <<msgs, rules, added, middleware, max_retries, retry_delay,
                   dead_letter_queue, stats, tasks,
                   templates, now, limiter, buckets, threads, ServiceVars>>

\* RoutingEngine.add_middleware
add_middleware(kind) ==
    /\ middleware' = Append(middleware, kind)
    /\ UNCHANGED <<msgs, rules, added, handlers, max_retries, retry_delay,
                   dead_letter_queue, stats, tasks,
                   templates, now, limiter, buckets, threads, ServiceVars>>

\* ------------------------------------------------------- the specification
StatKeys == {"total", "sent", "errors", "dead"} \cup {"sent:" \o c : c \in Channels}

\* RoutingEngine.__init__(max_retries, retry_delay)
\* nothing is scheduled, stored or awaited yet
InitServices ==
    /\ utcnow = 1
    /\ store = <<>>
    /\ cli = NoCommand
    /\ gathers = NoGather
    /\ codec = NoCodec
    /\ analytics = NoAnalytics
    /\ renderer = NoRenderer
    /\ api = NoCall
    /\ polls = NoPolls

InitEngine(retries, delays, registered) ==
    /\ msgs = <<>>
    /\ rules = <<>>
    /\ added = <<>>
    /\ middleware = <<>>
    /\ handlers = registered
    /\ max_retries \in retries
    /\ retry_delay \in delays
    /\ dead_letter_queue = <<>>
    /\ stats = [k \in StatKeys |-> 0]
    /\ tasks = [t \in Tasks |-> IdleTask]
    /\ templates = {}
    /\ InitServices

\* time.monotonic() is positive; no thread is inside the rate limiter; no
\* scheduler exists
InitClock ==
    /\ now = 1
    /\ threads = [t \in LimiterThreads |-> IdleThread]
    /\ scheduler = NoScheduler
    /\ jobs = NoJobs

\* a RoutingEngine, or a Gateway with the adapters in registered, and no
\* rate limiter
InitOf(retries, delays, registered) ==
    /\ InitEngine(retries, delays, registered)
    /\ InitClock
    /\ limiter = NoLimiter
    /\ buckets = <<>>

\* RoutingEngine(max_retries, retry_delay), no channel registered yet
InitWith(retries, delays) == InitOf(retries, delays, {})

\* RoutingEngine.broadcast(message, channels): one copy per channel, each
\* handed to a route coroutine that asyncio.gather starts later, in order
RECURSIVE Copies(_, _)
Copies(chs, mr) ==
    IF chs = <<>> THEN <<>>
    ELSE <<Message(chs[1], mr)>> \o Copies(Tail(chs), mr)

FreeSlots == {t \in Tasks : Free(t)}

\* the k-th free slot, counted from the lowest
RECURSIVE KthFree(_, _)
KthFree(S, k) ==
    LET lo == CHOOSE t \in S : \A u \in S : t <= u
    IN IF k = 1 THEN lo ELSE KthFree(S \ {lo}, k - 1)

\* every copy keeps the target of the message
CopyTargetKept(meta, ch, target) == target

\* target = message.metadata.get(f"target:{ch.value}", message.target); meta
\* is the set of the channels that have such a key, its value the key
CopyTarget(meta, ch, target) == IF ch \in meta THEN "target:" \o ch ELSE target

\* the copies of a message whose metadata name targets
RECURSIVE CopiesWith(_, _, _)
CopiesWith(chs, mr, meta) ==
    IF chs = <<>> THEN <<>>
    ELSE <<[Message(chs[1], mr) EXCEPT !.target = CopyTarget(meta, chs[1], @)]>>
            \o CopiesWith(Tail(chs), mr, meta)

\* the loop of broadcast over channels, with the copies it constructs
Broadcasting(chs, copies) ==
    /\ Len(chs) <= Cardinality(FreeSlots)
    /\ Begun + Len(chs) <= MaxTotal
    /\ Len(msgs) + Len(chs) <= MaxMsgs
    /\ msgs' = msgs \o copies
    /\ tasks' = [t \in Tasks |->
                    IF \E k \in 1..Len(chs) : KthFree(FreeSlots, k) = t
                    THEN LET k == CHOOSE k \in 1..Len(chs) : KthFree(FreeSlots, k) = t
                         IN [IdleTask EXCEPT !.pc = "created",
                                             !.orig = Len(msgs) + k,
                                             !.msg = Len(msgs) + k]
                    ELSE tasks[t]]
    /\ UNCHANGED <<rules, added, middleware, handlers, max_retries, retry_delay,
                   dead_letter_queue, stats,
                   templates, now, limiter, buckets, threads>>

\* broadcast by a caller that is not followed to the end of its await
broadcast(chs, mr) ==
    /\ Broadcasting(chs, Copies(chs, mr))
    /\ UNCHANGED ServiceVars

\* broadcast up to await asyncio.gather(*tasks): slots are the coroutines
\* in the order of channels, done the children whose completion the gather
\* has seen, in the order it saw them (history); gather of nothing returns
\* the empty list at once
broadcast_gather(chs, mr, meta) ==
    /\ gathers.pc = "idle"
    /\ Broadcasting(chs, CopiesWith(chs, mr, meta))
    /\ gathers' = [pc |-> IF chs = <<>> THEN "returned" ELSE "waiting",
                   slots |-> [k \in 1..Len(chs) |-> KthFree(FreeSlots, k)],
                   channels |-> chs, meta |-> meta, done |-> <<>>,
                   results |-> <<>>]
    /\ UNCHANGED <<utcnow, scheduler, jobs, store, cli, LabVars>>

\* the done-callback that gather put on child k runs; after the last one
\* the gather's result is the list of the children's results, by position
GatherChildDone(k) ==
    /\ gathers.pc = "waiting"
    /\ k \in DOMAIN gathers.slots
    /\ \A i \in DOMAIN gathers.done : gathers.done[i] # k
    /\ tasks[gathers.slots[k]].pc = "done"
    /\ gathers' = [gathers EXCEPT
            !.done = Append(@, k),
            !.pc = IF Len(gathers.done) + 1 = Len(gathers.slots)
                   THEN "returned" ELSE @,
            !.results = IF Len(gathers.done) + 1 = Len(gathers.slots)
                        THEN [i \in DOMAIN gathers.slots |->
                                tasks[gathers.slots[i]].result]
                        ELSE @]
    /\ UNCHANGED <<msgs, rules, added, middleware, handlers, max_retries,
                   retry_delay, dead_letter_queue, stats, tasks, templates,
                   now, limiter, buckets, threads,
                   utcnow, scheduler, jobs, store, cli, LabVars>>

\* the event loop runs the callbacks of a finished task before it resumes
\* another task
CallbacksRun ==
    \A k \in DOMAIN gathers.slots :
        tasks[gathers.slots[k]].pc = "done" =>
            \E i \in DOMAIN gathers.done : gathers.done[i] = k

\* the event loop starts the route coroutine of a copy
StartCopy(t) ==
    /\ tasks[t].pc = "created"
    /\ \A u \in Tasks : u < t => tasks[u].pc # "created"
    /\ RouteBody(t, msgs, dead_letter_queue, tasks[t].orig, FALSE)

\* ---------------------------------------------------------------------
\* Spec: the engine with neither rule nor middleware registered, its
\* dispatches interleaving on the event loop.
CoreChannels == {"telegram"}
CoreOutcomes == {o \in AdapterOutcomes : o.error # "None" \/ o.kind = "ok"}
CoreLists == {<<c>> : c \in CoreChannels} \cup {<<c, d>> : c, d \in CoreChannels}

Init == InitWith(0..MaxRetries, {DefaultRetryDelay})

Next ==
    \/ \E t \in Tasks, ch \in CoreChannels, mr \in 0..MaxRetries : RouteNew(t, ch, mr)
    \/ \E t \in Tasks, m \in 1..MaxMsgs : RouteAgain(t, m)
    \/ \E t \in Tasks, o \in CoreOutcomes : AdapterReturn(t, o)
    \/ Tick
    \/ \E t \in Tasks : Wake(t)
    \/ \E t \in Tasks, i \in 1..(MaxTotal + 1) : retry_dead_letter(t, i)
    \/ \E chs \in CoreLists, mr \in 0..MaxRetries : broadcast(chs, mr)
    \/ \E t \in Tasks : StartCopy(t)
    \/ \E ch \in CoreChannels : register_channel(ch)

Spec == Init /\ [][Next]_vars

\* ---------------------------------------------------------------------
\* SpecBroadcast: one broadcast, awaited to its end, on an engine with the
\* telegram adapter registered and neither rule nor middleware.
BroadcastLists ==
    {<<>>} \cup {<<c>> : c \in Channels} \cup {<<c, d>> : c, d \in Channels}

InitBroadcast == InitOf(0..MaxRetries, {DefaultRetryDelay}, {"telegram"})

NextBroadcast ==
    \/ \E chs \in BroadcastLists, mr \in 0..MaxRetries, meta \in SUBSET Channels :
            broadcast_gather(chs, mr, meta)
    \/ \E t \in Tasks : CallbacksRun /\ StartCopy(t)
    \/ \E t \in Tasks, o \in CoreOutcomes : CallbacksRun /\ AdapterReturn(t, o)
    \/ Tick
    \/ \E t \in Tasks : CallbacksRun /\ Wake(t)
    \/ \E k \in 1..Cardinality(Tasks) : GatherChildDone(k)

SpecBroadcast == InitBroadcast /\ [][NextBroadcast]_vars

\* the task of dispatch t is cancelled while it is suspended in
\* await handler.send(message) or in await asyncio.sleep(delay): the
\* CancelledError is raised there, no except clause of _send_with_retry or
\* route catches it, and the coroutine ends with it
Cancel(t) ==
    /\ tasks[t].pc \in {"sending", "backoff"}
    /\ tasks' = [tasks EXCEPT ![t].pc = "cancelled"]
    /\ UNCHANGED <<msgs, rules, added, middleware, handlers, max_retries,
                   retry_delay, dead_letter_queue, stats,
                   templates, now, limiter, buckets, threads, ServiceVars>>

\* ---------------------------------------------------------------------
\* SpecShutdown: the engine of Spec with its adapter registered, where the
\* task of a dispatch may be cancelled.
InitShutdown == InitOf(0..MaxRetries, {DefaultRetryDelay}, CoreChannels)

NextShutdown ==
    \/ \E t \in Tasks, ch \in CoreChannels, mr \in 0..MaxRetries : RouteNew(t, ch, mr)
    \/ \E t \in Tasks, o \in CoreOutcomes : AdapterReturn(t, o)
    \/ Tick
    \/ \E t \in Tasks : Wake(t)
    \/ \E t \in Tasks : Cancel(t)

SpecShutdown == InitShutdown /\ [][NextShutdown]_vars

\* ---------------------------------------------------------------------
\* SpecAbort: the same engine, to which a middleware that raises may be
\* added.
InitAbort == InitWith(0..MaxRetries, {DefaultRetryDelay})

NextAbort ==
    \/ \E t \in Tasks, ch \in CoreChannels, mr \in 0..MaxRetries : RouteNew(t, ch, mr)
    \/ \E t \in Tasks, m \in 1..MaxMsgs : RouteAgain(t, m)
    \/ \E t \in Tasks, o \in CoreOutcomes : AdapterReturn(t, o)
    \/ Tick
    \/ \E t \in Tasks : Wake(t)
    \/ \E t \in Tasks, i \in 1..(MaxTotal + 1) : retry_dead_letter(t, i)
    \/ \E ch \in CoreChannels : register_channel(ch)
    \/ middleware = <<>> /\ add_middleware("raises")

SpecAbort == InitAbort /\ [][NextAbort]_vars

\* ---------------------------------------------------------------------
\* SpecPipeline: rules and middleware registered, on both channels, one
\* dispatch after the other.
PipelineRules ==
    { RoutingRule("rush", "telegram", "slack", 1, "copy", TRUE),
      RoutingRule("all", "always", "telegram", 0, "inplace", TRUE) }
PipelineOutcomes == {o \in AdapterOutcomes : o.kind # "raise" /\ o \in CoreOutcomes}
One == {1}
PipelineRetries == {0, 1}

InitPipeline == InitWith({0}, {DefaultRetryDelay})

NextPipeline ==
    \/ \E t \in One, ch \in Channels, mr \in PipelineRetries : RouteNew(t, ch, mr)
    \/ \E t \in One, m \in 1..MaxMsgs : RouteAgain(t, m)
    \/ \E t \in One : MiddlewareReturn(t)
    \/ \E t \in One, o \in PipelineOutcomes : AdapterReturn(t, o)
    \/ Tick
    \/ \E t \in One : Wake(t)
    \/ \E t \in One, i \in 1..(MaxTotal + 1) : retry_dead_letter(t, i)
    \/ \E ch \in Channels : register_channel(ch)
    \/ \E k \in {"copy", "async"} : middleware = <<>> /\ add_middleware(k)
    \/ \E r \in PipelineRules : rules = <<>> /\ add_rule(r)

SpecPipeline == InitPipeline /\ [][NextPipeline]_vars

\* ---------------------------------------------------------------------
\* SpecGateway: Gateway.send over the engine, one dispatch at a time.  A
\* Gateway registers an adapter for every channel when it is constructed.

\* the names given to register_template; the source registered under
\* "broken" does not compile
TemplateNames == {"welcome", "broken"}

\* every named template renders
RendersAlways(name) == TRUE

\* TemplateEngine.render(name, vars) returns a text: the name is registered
\* (no template directory is configured) and its source compiles; otherwise
\* it raises
Renders(name) == name \in templates /\ name # "broken"

\* Gateway.register_template(name, template_str)
register_template(name) ==
    /\ templates' = templates \cup {name}
    /\ UNCHANGED <<msgs, rules, added, middleware, handlers, max_retries,
                   retry_delay, dead_letter_queue, stats, tasks, now, limiter,
                   buckets, threads, ServiceVars>>

\* TemplateEngine.unregister(name)
unregister(name) ==
    /\ templates' = templates \ {name}
    /\ UNCHANGED <<msgs, rules, added, middleware, handlers, max_retries,
                   retry_delay, dead_letter_queue, stats, tasks, now, limiter,
                   buckets, threads, ServiceVars>>

\* Gateway.send(message) on the message at m of the heap ms, in slot t
SendBody(t, ms, m) ==
    LET tpl == ms[m].template
    IN IF tpl # "" /\ ~Renders(tpl)
       THEN /\ msgs' = ms
            /\ tasks' = [tasks EXCEPT ![t] =
                    [IdleTask EXCEPT !.pc = "done", !.orig = m, !.msg = m,
                        !.result = SendResult(FALSE, m, ms[m].to_channel,
                            [kind |-> "template", n |-> 0, text |-> tpl], 0)]]
            /\ UNCHANGED <<rules, added, middleware, handlers, max_retries,
                           retry_delay, dead_letter_queue, stats, templates,
                           now, limiter, buckets, threads, ServiceVars>>
       ELSE RouteBody(t, IF tpl # "" THEN [ms EXCEPT ![m].content = <<tpl>>]
                         ELSE ms,
                      dead_letter_queue, m, FALSE)

\* a caller constructs Message(..., template = tpl) and awaits send(message)
send(t, ch, mr, tpl) ==
    /\ LowestFree(t)
    /\ Begun < MaxTotal
    /\ Len(msgs) < MaxMsgs
    /\ SendBody(t, Append(msgs, [Message(ch, mr) EXCEPT !.template = tpl]),
                Len(msgs) + 1)

\* a caller sets message.template = tpl on a message dispatched before and
\* awaits send(message)
SendAgain(t, m, tpl) ==
    /\ LowestFree(t)
    /\ Begun < MaxTotal
    /\ m \in 1..Len(msgs)
    /\ ~InFlight(m)
    /\ SendBody(t, [msgs EXCEPT ![m].template = tpl], m)

\* Message.template: none, or a name that may be registered at the time
GatewayTemplates == {""} \cup TemplateNames

InitGateway == InitOf({1}, {DefaultRetryDelay}, Channels)

NextGateway ==
    \/ \E ch \in CoreChannels, tpl \in GatewayTemplates :
            Len(msgs) < MaxTotal /\ send(1, ch, 0, tpl)
    \/ \E m \in 1..MaxMsgs, tpl \in GatewayTemplates : SendAgain(1, m, tpl)
    \/ \E o \in CoreOutcomes : AdapterReturn(1, o)
    \/ Tick
    \/ Wake(1)
    \/ \E name \in TemplateNames : register_template(name)
    \/ \E name \in TemplateNames : unregister(name)

SpecGateway == InitGateway /\ [][NextGateway]_vars

\* ---------------------------------------------------------------------
\* The rate limiter (rate_limiter.py).  Its callers are threads; a thread
\* can be preempted between any two accesses to shared state, so a call is
\* modelled by the steps between those accesses.

Min(a, b) == IF a <= b THEN a ELSE b

\* time.monotonic() advances
ClockTick ==
    /\ now < MaxClock
    /\ now' = now + 1
    /\ UNCHANGED <<EngineVars, ServiceVars, limiter, buckets, threads>>

\* TokenBucket._refill, time.monotonic() reading clock
Refilled(B, clock) ==
    [B EXCEPT !.tokens = Min(B.config.capacity + B.config.burst,
                             @ + (clock - B.last_refill) * B.config.refill_rate),
              !.last_refill = clock]

\* the bucket's lock is not looked at
LockIgnored(B) == TRUE

\* with self._lock: the lock can be taken
LockFree(B) == B.lock = 0

\* no consume is too early
NeverCoolingDown(B, clock) == FALSE

\* if self._last_consume > 0: elapsed_ms = (now - self._last_consume) * 1000;
\* if elapsed_ms < self.config.cooldown_ms
CoolingDown(B, clock) ==
    /\ B.last_consume > 0
    /\ (clock - B.last_consume) * 1000 < B.config.cooldown_ms

\* the calls that bucket B has answered
Answered(B) == B.total_consumed + B.total_rejected

\* f"{channel}:{target}"
Key(channel, target) == channel \o <<":">> \o target

RECURSIVE CallsOf(_)
CallsOf(ts) ==
    IF ts = {} THEN 0
    ELSE LET t == CHOOSE u \in ts : TRUE
         IN threads[t].calls + CallsOf(ts \ {t})

\* the calls into the rate limiter that have begun
CallsBegun == CallsOf(LimiterThreads)

ThreadFree(t) == threads[t].pc \in {"idle", "done", "raised"}

\* the target's bucket is consulted whatever the target
ConsultsTargetAlways(T) == TRUE

\* if target: neither None nor ""
ConsultsTarget(T) == T.target # <<>>

\* try_consume has returned r to thread record T, from a bucket that had
\* answered ord calls before: the caller goes on.  A direct caller has its
\* result; RateLimiter.check returns False at the first denial, goes from
\* the global bucket to the channel's and, if target:, from there to the
\* target's, and returns True after the last.
Returned(T, r, ord) ==
    LET T1 == [T EXCEPT !.trace = Append(@, [stage |-> T.stage,
                            bucket |-> T.bucket, admitted |-> r, ordinal |-> ord])]
    IN CASE T.op = "try_consume" -> [T1 EXCEPT !.pc = "done", !.result = r]
         [] T.op = "check" /\ ~r -> [T1 EXCEPT !.pc = "done", !.result = FALSE]
         [] T.op = "check" /\ r /\ T.stage = "global" ->
                [T1 EXCEPT !.pc = "get", !.stage = "channel", !.key = T.channel]
         [] T.op = "check" /\ r /\ T.stage = "channel" /\ ConsultsTarget(T) ->
                [T1 EXCEPT !.pc = "get", !.stage = "target",
                           !.key = Key(T.channel, T.target)]
         [] OTHER -> [T1 EXCEPT !.pc = "done", !.result = TRUE]

\* thread t calls try_consume() on the TokenBucket object b
try_consume(t, b) ==
    /\ ThreadFree(t)
    /\ CallsBegun < MaxCalls
    /\ b \in DOMAIN buckets
    /\ threads' = [threads EXCEPT ![t] = [IdleThread EXCEPT !.pc = "acquire",
                        !.op = "try_consume", !.stage = "bucket", !.bucket = b,
                        !.calls = threads[t].calls + 1]]
    /\ UNCHANGED <<EngineVars, ServiceVars, now, limiter, buckets>>

\* with self._lock: self._refill()
Enter(t) ==
    LET T == threads[t]
        B == buckets[T.bucket]
    IN /\ T.pc = "acquire"
       /\ LockFree(B)
       /\ buckets' = [buckets EXCEPT ![T.bucket] =
                        [Refilled(B, now) EXCEPT !.lock = t]]
       /\ threads' = [threads EXCEPT ![t].pc = "cooldown"]
       /\ UNCHANGED <<EngineVars, ServiceVars, now, limiter>>

\* now = time.monotonic() and the cooldown check
CooldownCheck(t) ==
    LET T == threads[t]
        B == buckets[T.bucket]
    IN /\ T.pc = "cooldown"
       /\ IF CoolingDown(B, now)
          THEN /\ buckets' = [buckets EXCEPT ![T.bucket] =
                        [B EXCEPT !.total_rejected = @ + 1, !.lock = 0]]
               /\ threads' = [threads EXCEPT ![t] = Returned(T, FALSE, Answered(B))]
          ELSE /\ threads' = [threads EXCEPT ![t] = [T EXCEPT !.pc = "test",
                                                               !.now = now]]
               /\ UNCHANGED buckets
       /\ UNCHANGED <<EngineVars, ServiceVars, now, limiter>>

\* a rejection inside check hands the token taken from the global bucket
\* back to it
TokenTestRefunding(t) ==
    LET T == threads[t]
        B == buckets[T.bucket]
        refund == T.op = "check" /\ T.stage # "global"
    IN /\ T.pc = "test"
       /\ IF B.tokens >= 1
          THEN /\ threads' = [threads EXCEPT ![t].pc = "take"]
               /\ UNCHANGED buckets
          ELSE /\ buckets' = [buckets EXCEPT
                        ![T.bucket] = [B EXCEPT !.total_rejected = @ + 1, !.lock = 0],
                        ![limiter.global].tokens = IF refund THEN @ + 1 ELSE @]
               /\ threads' = [threads EXCEPT ![t] = Returned(T, FALSE, Answered(B))]
       /\ UNCHANGED <<EngineVars, ServiceVars, now, limiter>>

\* if self._tokens >= tokens, and the rejection when it is not
TokenTest(t) ==
    LET T == threads[t]
        B == buckets[T.bucket]
    IN /\ T.pc = "test"
       /\ IF B.tokens >= 1
          THEN /\ threads' = [threads EXCEPT ![t].pc = "take"]
               /\ UNCHANGED buckets
          ELSE /\ buckets' = [buckets EXCEPT ![T.bucket] =
                        [B EXCEPT !.total_rejected = @ + 1, !.lock = 0]]
               /\ threads' = [threads EXCEPT ![t] = Returned(T, FALSE, Answered(B))]
       /\ UNCHANGED <<EngineVars, ServiceVars, now, limiter>>

\* self._tokens -= tokens; self._last_consume = now;
\* self._total_consumed += 1; return True
TokenTake(t) ==
    LET T == threads[t]
        B == buckets[T.bucket]
    IN /\ T.pc = "take"
       /\ buckets' = [buckets EXCEPT ![T.bucket] =
                        [B EXCEPT !.tokens = @ - 1, !.last_consume = T.now,
                                  !.total_consumed = @ + 1, !.lock = 0]]
       /\ threads' = [threads EXCEPT ![t] = Returned(T, TRUE, Answered(B))]
       /\ UNCHANGED <<EngineVars, ServiceVars, now, limiter>>

\* ---------------------------------------------------------------------
\* SpecBucket: one TokenBucket, the threads call try_consume on it while
\* the clock runs.

\* the configurations of the bucket under test; a cooldown of 1500 ms spans
\* one reading of the clock and part of the next
BucketConfigs ==
    { BucketConfig(c, r, b, cd) :
        c \in 1..MaxCapacity, r \in {0, 1}, b \in {0, 1}, cd \in {0, 1000, 1500} }

InitBucket ==
    /\ InitEngine({DefaultMaxRetries}, {DefaultRetryDelay}, {})
    /\ InitClock
    /\ limiter = NoLimiter
    /\ \E config \in BucketConfigs : buckets = <<TokenBucket(config, now)>>

NextBucket ==
    \/ \E t \in LimiterThreads : try_consume(t, 1)
    \/ \E t \in LimiterThreads : Enter(t)
    \/ \E t \in LimiterThreads : CooldownCheck(t)
    \/ \E t \in LimiterThreads : TokenTest(t)
    \/ \E t \in LimiterThreads : TokenTake(t)
    \/ ClockTick

SpecBucket == InitBucket /\ [][NextBucket]_vars

\* ---------------------------------------------------------------------
\* RateLimiter: the global bucket, and the buckets made on first use

\* RateLimiter.__init__: the configuration of self._global_bucket
GlobalConfig == BucketConfig(200, 20, 50, 0)

\* BucketConfig(): the configuration of a channel without a limit
DefaultConfig == BucketConfig(30, 1, 10, 100)

\* DEFAULT_LIMITS, for the channels of the model
DefaultLimits ==
    [c \in {<<"telegram">>, <<"slack">>} |->
        IF c = <<"telegram">> THEN BucketConfig(30, 1, 5, 35)
        ELSE BucketConfig(1, 1, 1, 1000)]

\* RateLimiter(custom_limits): self._limits = {**DEFAULT_LIMITS, **custom},
\* no bucket yet; the global bucket is the first object of the heap
RateLimiter(custom) ==
    [limits |-> [c \in DOMAIN DefaultLimits \cup DOMAIN custom |->
                    IF c \in DOMAIN custom THEN custom[c] ELSE DefaultLimits[c]],
     map |-> {}, lock |-> 0, global |-> 1]

\* key.split(":")[0] if ":" in key else key
RECURSIVE ChannelOfKey(_)
ChannelOfKey(key) ==
    IF key = <<>> \/ Head(key) = ":" THEN <<>>
    ELSE <<Head(key)>> \o ChannelOfKey(Tail(key))

\* self._limits.get(channel, BucketConfig())
ConfigFor(key) ==
    IF ChannelOfKey(key) \in DOMAIN limiter.limits
    THEN limiter.limits[ChannelOfKey(key)]
    ELSE DefaultConfig

\* key in self._buckets
Has(key) == \E e \in limiter.map : e.key = key

\* self._buckets[key]
BucketAt(key) == (CHOOSE e \in limiter.map : e.key = key).bucket

\* thread t calls check(channel, target): the global bucket comes first
check(t, channel, target) ==
    /\ ThreadFree(t)
    /\ CallsBegun < MaxCalls
    /\ limiter # NoLimiter
    /\ threads' = [threads EXCEPT ![t] = [IdleThread EXCEPT !.pc = "acquire",
                        !.op = "check", !.channel = channel, !.target = target,
                        !.stage = "global", !.bucket = limiter.global,
                        !.calls = threads[t].calls + 1,
                        !.after = [reset |-> threads[t].op = "reset"
                                                /\ threads[t].pc = "done",
                                   channel |-> IF threads[t].op = "reset"
                                               THEN threads[t].channel ELSE <<>>]]]
    /\ UNCHANGED <<EngineVars, ServiceVars, now, limiter, buckets>>

\* _get_bucket: if key not in self._buckets, read without the lock
GetBucket(t) ==
    /\ threads[t].pc = "get"
    /\ threads' = [threads EXCEPT ![t].pc =
                        IF Has(threads[t].key) THEN "lookup" ELSE "get_lock"]
    /\ UNCHANGED <<EngineVars, ServiceVars, now, limiter, buckets>>

\* _get_bucket: with self._lock
GetBucketLock(t) ==
    /\ threads[t].pc = "get_lock"
    /\ limiter.lock = 0
    /\ limiter' = [limiter EXCEPT !.lock = t]
    /\ threads' = [threads EXCEPT ![t].pc = "create"]
    /\ UNCHANGED <<EngineVars, ServiceVars, now, buckets>>

\* _get_bucket, under the lock: if key not in self._buckets:
\* self._buckets[key] = TokenBucket(config); then the lock is released
GetBucketCreate(t) ==
    LET key == threads[t].key
    IN /\ threads[t].pc = "create"
       /\ IF Has(key)
          THEN /\ limiter' = [limiter EXCEPT !.lock = 0]
               /\ UNCHANGED buckets
          ELSE /\ buckets' = Append(buckets, TokenBucket(ConfigFor(key), now))
               /\ limiter' = [limiter EXCEPT !.lock = 0,
                        !.map = @ \cup {[key |-> key, bucket |-> Len(buckets) + 1]}]
       /\ threads' = [threads EXCEPT ![t].pc = "lookup"]
       /\ UNCHANGED <<EngineVars, ServiceVars, now>>

\* _get_bucket: return self._buckets[key], a KeyError if the key is gone;
\* the caller goes into try_consume on the bucket
GetBucketReturn(t) ==
    LET key == threads[t].key
    IN /\ threads[t].pc = "lookup"
       /\ threads' = [threads EXCEPT ![t] =
                IF Has(key) THEN [@ EXCEPT !.pc = "acquire", !.bucket = BucketAt(key)]
                ELSE [@ EXCEPT !.pc = "raised"]]
       /\ UNCHANGED <<EngineVars, ServiceVars, now, limiter, buckets>>

\* k.startswith(prefix)
StartsWith(k, prefix) ==
    Len(k) >= Len(prefix) /\ SubSeq(k, 1, Len(prefix)) = prefix

\* every key goes
RemovesAll(k, channel) == TRUE

\* k == channel or k.startswith(f"{channel}:")
Removes(k, channel) == k = channel \/ StartsWith(k, channel \o <<":">>)

\* the keys of the entries es, in the order of the dict: the order in which
\* the buckets were made
RECURSIVE KeysInOrder(_)
KeysInOrder(es) ==
    IF es = {} THEN <<>>
    ELSE LET e == CHOOSE x \in es : \A y \in es : x.bucket <= y.bucket
         IN <<e.key>> \o KeysInOrder(es \ {e})

\* thread t calls reset(channel): without a channel self._buckets.clear();
\* with one, keys_to_remove is collected.  reset takes no lock.
reset(t, channel) ==
    LET T == [IdleThread EXCEPT !.op = "reset", !.channel = channel,
                                !.snap = limiter.map,
                                !.calls = threads[t].calls + 1]
        keys == KeysInOrder({e \in limiter.map : Removes(e.key, channel)})
    IN /\ ThreadFree(t)
       /\ CallsBegun < MaxCalls
       /\ limiter # NoLimiter
       /\ IF channel = <<>>
          THEN /\ limiter' = [limiter EXCEPT !.map = {}]
               /\ threads' = [threads EXCEPT ![t] = [T EXCEPT !.pc = "done"]]
          ELSE /\ threads' = [threads EXCEPT ![t] =
                        [T EXCEPT !.keys = keys,
                                  !.pc = IF keys = <<>> THEN "done" ELSE "del"]]
               /\ UNCHANGED limiter
       /\ UNCHANGED <<EngineVars, ServiceVars, now, buckets>>

\* for k in keys_to_remove: del self._buckets[k], a KeyError if k is gone
ResetDelete(t) ==
    LET T == threads[t]
        k == Head(T.keys)
    IN /\ T.pc = "del"
       /\ IF Has(k)
          THEN /\ limiter' = [limiter EXCEPT !.map = {e \in @ : e.key # k}]
               /\ threads' = [threads EXCEPT ![t] =
                        [T EXCEPT !.keys = Tail(@),
                                  !.pc = IF Tail(T.keys) = <<>> THEN "done"
                                         ELSE "del"]]
          ELSE /\ threads' = [threads EXCEPT ![t].pc = "raised"]
               /\ UNCHANGED limiter
       /\ UNCHANGED <<EngineVars, ServiceVars, now, buckets>>

\* ---------------------------------------------------------------------
\* SpecLimiter: a RateLimiter with a custom limit for the channel "test";
\* the threads call check while the clock runs.

\* custom_limits = {"test": BucketConfig(capacity = c, refill_rate = 0,
\* cooldown_ms = 0)}, burst at its default
CustomLimits ==
    { [ch \in {<<"test">>} |-> BucketConfig(c, 0, DefaultConfig.burst, 0)] :
        c \in 1..MaxCapacity }

\* the checks of this specification come from one thread
OneThread == {1}

LimiterChannels == {<<"test">>, <<"slack">>}
LimiterTargets == {<<>>, <<"u">>}

\* the global bucket as constructed, or as capacity - 1 earlier checks and
\* a reset() at the same reading of the clock have left it
GlobalBuckets ==
    { TokenBucket(GlobalConfig, 1),
      [TokenBucket(GlobalConfig, 1) EXCEPT !.tokens = 1,
            !.total_consumed = GlobalConfig.capacity - 1, !.last_consume = 1] }

InitLimiter ==
    /\ InitEngine({DefaultMaxRetries}, {DefaultRetryDelay}, {})
    /\ InitClock
    /\ \E custom \in CustomLimits : limiter = RateLimiter(custom)
    /\ \E G \in GlobalBuckets : buckets = <<G>>

NextLimiter ==
    \/ \E t \in OneThread, ch \in LimiterChannels, target \in LimiterTargets :
            check(t, ch, target)
    \/ \E t \in OneThread : Enter(t)
    \/ \E t \in OneThread : CooldownCheck(t)
    \/ \E t \in OneThread : TokenTest(t)
    \/ \E t \in OneThread : TokenTake(t)
    \/ \E t \in OneThread : GetBucket(t)
    \/ \E t \in OneThread : GetBucketLock(t)
    \/ \E t \in OneThread : GetBucketCreate(t)
    \/ \E t \in OneThread : GetBucketReturn(t)
    \/ ClockTick

SpecLimiter == InitLimiter /\ [][NextLimiter]_vars

\* ---------------------------------------------------------------------
\* SpecReset: check and reset called one after another from one thread, on
\* a RateLimiter with a one-token limit for the channel "test".

ResetLimits == [ch \in {<<"test">>} |-> BucketConfig(1, 0, DefaultConfig.burst, 0)]

\* reset(), reset("test"), reset("slack")
ResetChannels == {<<>>} \cup LimiterChannels

InitReset ==
    /\ InitEngine({DefaultMaxRetries}, {DefaultRetryDelay}, {})
    /\ InitClock
    /\ limiter = RateLimiter(ResetLimits)
    /\ buckets = <<TokenBucket(GlobalConfig, now)>>

NextReset ==
    \/ \E t \in OneThread, ch \in LimiterChannels, target \in LimiterTargets :
            check(t, ch, target)
    \/ \E t \in OneThread, ch \in ResetChannels : reset(t, ch)
    \/ \E t \in OneThread : ResetDelete(t)
    \/ \E t \in OneThread : Enter(t)
    \/ \E t \in OneThread : CooldownCheck(t)
    \/ \E t \in OneThread : TokenTest(t)
    \/ \E t \in OneThread : TokenTake(t)
    \/ \E t \in OneThread : GetBucket(t)
    \/ \E t \in OneThread : GetBucketLock(t)
    \/ \E t \in OneThread : GetBucketCreate(t)
    \/ \E t \in OneThread : GetBucketReturn(t)
    \/ ClockTick

SpecReset == InitReset /\ [][NextReset]_vars

\* ---------------------------------------------------------------------
\* SpecRace: two threads call check("test") and reset("test") on one
\* RateLimiter at the same reading of the clock.

InitRace == InitReset

NextRace ==
    \/ \E t \in LimiterThreads : check(t, <<"test">>, <<>>)
    \/ \E t \in LimiterThreads : reset(t, <<"test">>)
    \/ \E t \in LimiterThreads : ResetDelete(t)
    \/ \E t \in LimiterThreads : Enter(t)
    \/ \E t \in LimiterThreads : CooldownCheck(t)
    \/ \E t \in LimiterThreads : TokenTest(t)
    \/ \E t \in LimiterThreads : TokenTake(t)
    \/ \E t \in LimiterThreads : GetBucket(t)
    \/ \E t \in LimiterThreads : GetBucketLock(t)
    \/ \E t \in LimiterThreads : GetBucketCreate(t)
    \/ \E t \in LimiterThreads : GetBucketReturn(t)

SpecRace == InitRace /\ [][NextRace]_vars

\* ---------------------------------------------------------------------
\* The scheduler (scheduler.py).  Its coroutines run on the event loop:
\* everything between two awaits is one step.

\* ScheduleEntry(entry_id, message_data, scheduled_at, recurring,
\* interval_seconds, max_runs); the entry's id is its place in entries.
\* last_run_at 0 is None.  sends and notified are history: the calls of
\* send_fn for the entry, and the calls of callbacks with it.
ScheduleEntry(scheduled_at, recurring, interval_seconds, max_runs) ==
    [scheduled_at |-> scheduled_at, recurring |-> recurring,
     interval_seconds |-> interval_seconds, max_runs |-> max_runs,
     run_count |-> 0, status |-> "pending", created_at |-> utcnow,
     last_run_at |-> 0,
     last_result |-> "None", sends |-> 0, notified |-> 0]

\* MessageScheduler(send_fn): has_send_fn is whether send_fn is given
MessageScheduler(has_send_fn) == [NoScheduler EXCEPT !.send_fn = has_send_fn]

\* datetime.utcnow() advances by d seconds
UtcAdvance(d) ==
    /\ utcnow + d <= MaxUtc
    /\ utcnow' = utcnow + d
    /\ UNCHANGED <<EngineVars, LimiterVars, scheduler, jobs, store, cli, gathers, LabVars>>

\* every entry whose time has come is due, whatever its status
IsDueAnyStatus(E) == utcnow >= E.scheduled_at

\* ScheduleEntry.is_due
IsDue(E) == E.status = "pending" /\ utcnow >= E.scheduled_at

\* advance that leaves scheduled_at where it was
AdvanceInPlace(E, clock) ==
    LET n == E.run_count + 1
    IN IF E.recurring /\ (E.max_runs = 0 \/ n < E.max_runs)
       THEN [E EXCEPT !.run_count = n, !.last_run_at = clock]
       ELSE [E EXCEPT !.run_count = n, !.last_run_at = clock,
                      !.status = "completed"]

\* ScheduleEntry.advance, datetime.utcnow() reading clock
Advance(E, clock) ==
    LET n == E.run_count + 1
    IN IF E.recurring /\ (E.max_runs = 0 \/ n < E.max_runs)
       THEN [E EXCEPT !.run_count = n, !.last_run_at = clock,
                      !.scheduled_at = @ + E.interval_seconds]
       ELSE [E EXCEPT !.run_count = n, !.last_run_at = clock,
                      !.status = "completed"]

\* the except branch records the error and leaves the entry where it was
ExecutedNoAdvanceOnError(E, o, callbacks) ==
    IF o = "ok"
    THEN [Advance([E EXCEPT !.last_result = "ok"], utcnow)
            EXCEPT !.notified = @ + Len(callbacks)]
    ELSE [E EXCEPT !.last_result = "error"]

\* _execute_entry after send_fn: with a result, last_result is set, the
\* entry advances and every callback is called (one that raises is logged);
\* with an exception, last_result is the error and the entry advances
Executed(E, o, callbacks) ==
    IF o = "ok"
    THEN [Advance([E EXCEPT !.last_result = "ok"], utcnow)
            EXCEPT !.notified = @ + Len(callbacks)]
    ELSE Advance([E EXCEPT !.last_result = "error"], utcnow)

\* _execute_entry without a send_fn
ExecutedWithoutSendFn(E, callbacks) ==
    [Advance([E EXCEPT !.last_result = "no_send_fn"], utcnow)
        EXCEPT !.notified = @ + Len(callbacks)]

SchedulerFrame == UNCHANGED <<EngineVars, LimiterVars, utcnow, store, cli, gathers, LabVars>>

\* schedule_at(message_data, at)
schedule_at(at) ==
    /\ Len(scheduler.entries) + 1 \in EntryIds
    /\ scheduler' = [scheduler EXCEPT !.entries =
                        Append(@, ScheduleEntry(at, FALSE, 0, 0))]
    /\ UNCHANGED jobs
    /\ SchedulerFrame

\* schedule_delay(message_data, delay_seconds)
schedule_delay(delay_seconds) == schedule_at(utcnow + delay_seconds)

\* schedule_recurring(message_data, interval_seconds, start_at, max_runs);
\* start_at 0 is None: at = start_at or datetime.utcnow()
schedule_recurring(interval_seconds, start_at, max_runs) ==
    /\ Len(scheduler.entries) + 1 \in EntryIds
    /\ scheduler' = [scheduler EXCEPT !.entries =
            Append(@, ScheduleEntry(IF start_at = 0 THEN utcnow ELSE start_at,
                                    TRUE, interval_seconds, max_runs))]
    /\ UNCHANGED jobs
    /\ SchedulerFrame

\* cancel(entry_id)
cancel(id) ==
    /\ id \in DOMAIN scheduler.entries
    /\ scheduler' = [scheduler EXCEPT !.entries[id].status = "cancelled"]
    /\ UNCHANGED jobs
    /\ SchedulerFrame

\* on_execute(callback); kind "raises" is a callback that raises
on_execute(kind) ==
    /\ scheduler' = [scheduler EXCEPT !.callbacks = Append(@, kind)]
    /\ UNCHANGED jobs
    /\ SchedulerFrame

\* get_due: the due entries in the order of the dict
RECURSIVE DueFrom(_, _)
DueFrom(entries, i) ==
    IF i > Len(entries) THEN <<>>
    ELSE (IF IsDue(entries[i]) THEN <<i>> ELSE <<>>) \o DueFrom(entries, i + 1)

get_due == DueFrom(scheduler.entries, 1)

Range(s) == {s[i] : i \in DOMAIN s}

\* process_due up to await asyncio.gather(...), and the tasks of the gather
\* up to their await self._send_fn(...): without due entries it returns 0;
\* without a send_fn every task runs to its end; a timed call has its clock
\* reading kept in jobs.callers (history)
ProcessDueBegin(timed) ==
    LET due == get_due
        jobs_timed == [jobs EXCEPT !.callers =
                            IF timed THEN Append(@, utcnow) ELSE @]
        es == scheduler.entries
    IN IF due = <<>>
       THEN /\ jobs' = [jobs_timed EXCEPT
                            !.poll = [NoPoll EXCEPT !.pc = "returned"]]
            /\ UNCHANGED scheduler
       ELSE /\ \A i \in Range(due) : es[i].run_count < MaxRunCount
            /\ IF scheduler.send_fn
               THEN /\ scheduler' = [scheduler EXCEPT !.entries =
                            [i \in DOMAIN es |->
                                IF i \in Range(due)
                                THEN [es[i] EXCEPT !.sends = @ + 1] ELSE es[i]]]
                    /\ jobs' = [jobs_timed EXCEPT !.poll =
                            [pc |-> "waiting", due |-> due,
                             pending |-> Range(due), result |-> 0]]
               ELSE /\ scheduler' = [scheduler EXCEPT !.entries =
                            [i \in DOMAIN es |->
                                IF i \in Range(due)
                                THEN ExecutedWithoutSendFn(es[i], scheduler.callbacks)
                                ELSE es[i]]]
                    /\ jobs' = [jobs_timed EXCEPT !.poll =
                            [pc |-> "waiting", due |-> due,
                             pending |-> {}, result |-> 0]]

\* a caller awaits process_due(), no other call of it being under way
process_due ==
    /\ jobs.poll.pc # "waiting"
    /\ ProcessDueBegin(FALSE)
    /\ SchedulerFrame

\* the same call, made by a test that notes the time of its calls
process_due_timed ==
    /\ jobs.poll.pc # "waiting"
    /\ ProcessDueBegin(TRUE)
    /\ SchedulerFrame

\* await self._send_fn(entry.message_data) comes back for entry id, with a
\* result ("ok") or an exception ("raise"), and _execute_entry runs to its end
SendFnReturn(id, o) ==
    /\ jobs.poll.pc = "waiting"
    /\ id \in jobs.poll.pending
    /\ scheduler' = [scheduler EXCEPT !.entries[id] =
                        Executed(@, o, scheduler.callbacks)]
    /\ jobs' = [jobs EXCEPT !.poll.pending = @ \ {id}]
    /\ SchedulerFrame

\* the gather is complete: return len(due)
ProcessDueReturn ==
    /\ jobs.poll.pc = "waiting"
    /\ jobs.poll.pending = {}
    /\ jobs' = [jobs EXCEPT !.poll.pc = "returned",
                            !.poll.result = Len(jobs.poll.due)]
    /\ UNCHANGED scheduler
    /\ SchedulerFrame

\* ---------------------------------------------------------------------
\* SpecScheduler: entries are scheduled and cancelled, and a caller awaits
\* process_due again and again, one call after the other.

InitScheduler ==
    /\ InitEngine({DefaultMaxRetries}, {DefaultRetryDelay}, {})
    /\ now = 1
    /\ threads = [t \in LimiterThreads |-> IdleThread]
    /\ limiter = NoLimiter
    /\ buckets = <<>>
    /\ \E has_send_fn \in BOOLEAN : scheduler = MessageScheduler(has_send_fn)
    /\ jobs = NoJobs

\* the entries are scheduled before the first poll and the first second
Unpolled == jobs.poll.pc = "idle" /\ utcnow = 1

NextScheduler ==
    \/ Unpolled /\ schedule_at(utcnow - 1)
    \/ Unpolled /\ schedule_delay(1)
    \/ \E max_runs \in 0..MaxRuns : Unpolled /\ schedule_recurring(1, 0, max_runs)
    \/ \E id \in EntryIds : cancel(id)
    \/ Unpolled /\ scheduler.callbacks = <<>> /\ on_execute("raises")
    \/ process_due
    \/ \E id \in EntryIds, o \in {"ok", "raise"} : SendFnReturn(id, o)
    \/ ProcessDueReturn
    \/ utcnow < MaxPollClock /\ UtcAdvance(1)

SpecScheduler == InitScheduler /\ [][NextScheduler]_vars

\* the coroutines that call start and stop
Callers == {1, 2}

\* a coroutine that has made no call: op is its latest call, pc "awaiting"
\* is inside stop at await self._task, task the task awaited, and flip
\* changes with every call (history)
IdleCaller == [op |-> "none", pc |-> "idle", task |-> 0, flip |-> FALSE]

\* asyncio.create_task(self._worker()): the task has not run yet
WorkerTask == [pc |-> "created", cancelled |-> FALSE]

\* start creates a task whatever _running is
NeverRunning == FALSE

\* start: if self._running: return
AlreadyRunning == scheduler.running

\* the worker tasks that have not exited
Live == {k \in DOMAIN jobs.workers : jobs.workers[k].pc # "done"}

\* the live worker tasks no cancel() has been called on
Uncancelled == {k \in Live : ~jobs.workers[k].cancelled}

\* await scheduler.start() by coroutine c; start has no await of its own
start(c) ==
    /\ jobs.stops[c].pc # "awaiting"
    /\ IF AlreadyRunning
       THEN /\ UNCHANGED scheduler
            /\ jobs' = [jobs EXCEPT !.stops[c] =
                    [op |-> "start", pc |-> "returned", task |-> 0, flip |-> ~@.flip]]
       ELSE /\ Len(jobs.workers) < MaxWorkers
            /\ scheduler' = [scheduler EXCEPT !.running = TRUE,
                                              !.task = Len(jobs.workers) + 1]
            /\ jobs' = [jobs EXCEPT
                    !.workers = Append(@, WorkerTask),
                    !.stops[c] =
                        [op |-> "start", pc |-> "returned", task |-> 0, flip |-> ~@.flip]]
    /\ SchedulerFrame

\* await scheduler.stop() by coroutine c up to await self._task: task.cancel()
\* does nothing to a task that is done, and awaiting such a task does not
\* suspend (its CancelledError is caught at once)
stop(c) ==
    LET k == scheduler.task
        gone == k = 0 \/ jobs.workers[k].pc = "done"
    IN /\ jobs.stops[c].pc # "awaiting"
       /\ scheduler' = [scheduler EXCEPT !.running = FALSE]
       /\ jobs' = [jobs EXCEPT
                !.workers = IF gone THEN @ ELSE [@ EXCEPT ![k].cancelled = TRUE],
                !.stops[c] =
                    [op |-> "stop", pc |-> IF gone THEN "returned" ELSE "awaiting",
                     task |-> k, flip |-> ~@.flip]]
       /\ SchedulerFrame

\* the loop runs task k for the first time or wakes it from its sleep:
\* while self._running, it awaits process_due, which returns 0 without
\* suspending when nothing is due, and sleeps; otherwise it returns
WorkerRun(k) ==
    /\ k \in DOMAIN jobs.workers
    /\ jobs.workers[k].pc \in {"created", "sleeping"}
    /\ ~jobs.workers[k].cancelled
    /\ get_due = <<>>
    /\ jobs' = [jobs EXCEPT !.workers[k].pc =
                    IF scheduler.running THEN "sleeping" ELSE "done"]
    /\ UNCHANGED scheduler
    /\ SchedulerFrame

\* the loop delivers the CancelledError to task k: a task that has not run
\* never runs, and one asleep leaves the sleep with the error, which no
\* except clause of _worker catches
WorkerCancelled(k) ==
    /\ k \in DOMAIN jobs.workers
    /\ jobs.workers[k].pc # "done"
    /\ jobs.workers[k].cancelled
    /\ jobs' = [jobs EXCEPT !.workers[k].pc = "done"]
    /\ UNCHANGED scheduler
    /\ SchedulerFrame

\* the task awaited by coroutine c in stop is done: stop returns
StopReturn(c) ==
    /\ jobs.stops[c].pc = "awaiting"
    /\ jobs.workers[jobs.stops[c].task].pc = "done"
    /\ jobs' = [jobs EXCEPT !.stops[c].pc = "returned"]
    /\ UNCHANGED scheduler
    /\ SchedulerFrame

\* ---------------------------------------------------------------------
\* SpecWorker: two coroutines call start and stop on one scheduler, in any
\* order and interleaved at stop's await; nothing is scheduled.

InitWorker ==
    /\ InitEngine({DefaultMaxRetries}, {DefaultRetryDelay}, {})
    /\ now = 1
    /\ threads = [t \in LimiterThreads |-> IdleThread]
    /\ limiter = NoLimiter
    /\ buckets = <<>>
    /\ scheduler = MessageScheduler(TRUE)
    /\ jobs = [NoJobs EXCEPT !.stops = [c \in Callers |-> IdleCaller]]

NextWorker ==
    \/ \E c \in Callers : start(c)
    \/ \E c \in Callers : stop(c)
    \/ \E k \in 1..MaxWorkers : WorkerRun(k)
    \/ \E k \in 1..MaxWorkers : WorkerCancelled(k)
    \/ \E c \in Callers : StopReturn(c)

SpecWorker == InitWorker /\ [][NextWorker]_vars

\* ---- the message store (store.py) ----

\* the row save_message writes for the dict of a message just constructed:
\* status pending, last_error and sent_at NULL (sent_at 0)
NewRow ==
    [status |-> PENDING, last_error |-> "None", sent_at |-> 0, updated_at |-> utcnow]

\* the UPDATE of update_status on row R; error "" is no error given
UpdatedRow(R, status, error) ==
    IF error # ""
    THEN [R EXCEPT !.status = status, !.last_error = error, !.updated_at = utcnow]
    ELSE [R EXCEPT !.status = status,
                   !.sent_at = IF status = SENT THEN utcnow ELSE @,
                   !.updated_at = utcnow]

\* the table messages after save_message for id
Saved(rows, id) ==
    [i \in DOMAIN rows \cup {id} |-> IF i = id THEN NewRow ELSE rows[i]]

\* the table after update_status: no row with the id, no change
Updated(rows, id, status, error) ==
    IF id \in DOMAIN rows
    THEN [rows EXCEPT ![id] = UpdatedRow(@, status, error)]
    ELSE rows

StoreFrame == UNCHANGED <<EngineVars, LimiterVars, utcnow, scheduler, jobs, cli, gathers, LabVars>>

\* MessageStore.save_message(msg_dict): INSERT OR REPLACE
save_message(id) ==
    /\ store' = Saved(store, id)
    /\ StoreFrame

\* MessageStore.update_status(message_id, status, error)
update_status(id, status, error) ==
    /\ store' = Updated(store, id, status, error)
    /\ StoreFrame

\* ---------------------------------------------------------------------
\* SpecStore: rows are saved and their status updated while the clock runs.
StoreIds == {1, 2}
StoreStatuses == {SENDING, SENT, "failed"}
StoreErrors == {"", "E1"}

InitStore == InitOf({DefaultMaxRetries}, {DefaultRetryDelay}, {})

NextStore ==
    \/ \E id \in StoreIds : save_message(id)
    \/ \E id \in StoreIds, status \in StoreStatuses, error \in StoreErrors :
            update_status(id, status, error)
    \/ utcnow < MaxPollClock /\ UtcAdvance(1)

SpecStore == InitStore /\ [][NextStore]_vars

\* ---- the send command (cli.py) ----

\* the dispatch of the command's message has been started and is done
CommandDone ==
    /\ cli.msg \in 1..Len(msgs)
    /\ \E t \in Tasks : tasks[t].orig = cli.msg /\ tasks[t].pc = "done"

\* cmd_send up to await gateway.send(msg): the Message it constructs will be
\* the next object of the heap, and its dict is saved
CmdSendSave ==
    /\ cli.pc = "idle"
    /\ cli' = [cli EXCEPT !.pc = "saved", !.msg = Len(msgs) + 1]
    /\ store' = Saved(store, Len(msgs) + 1)
    /\ UNCHANGED <<EngineVars, LimiterVars, utcnow, scheduler, jobs, gathers, LabVars>>

\* cmd_send calls gateway.send(msg) right after the save
CmdSendAwait(t, ch, tpl) ==
    /\ cli.pc = "saved"
    /\ Len(msgs) < cli.msg
    /\ send(t, ch, 0, tpl)

\* cmd_send after the await: update_status(msg.id, "sent") or
\* update_status(msg.id, "failed", result.error)
CmdSendReturn ==
    /\ cli.pc = "saved"
    /\ CommandDone
    /\ LET t == CHOOSE t \in Tasks : tasks[t].orig = cli.msg /\ tasks[t].pc = "done"
       IN /\ store' = IF tasks[t].result.success
                      THEN Updated(store, cli.msg, SENT, "")
                      ELSE Updated(store, cli.msg, "failed", "error")
          /\ cli' = [cli EXCEPT !.pc = "returned", !.task = t]
    /\ UNCHANGED <<EngineVars, LimiterVars, utcnow, scheduler, jobs, gathers, LabVars>>

\* ---------------------------------------------------------------------
\* SpecCommand: one run of the send command on a gateway with both
\* adapters, with or without a template registered.
InitCommand == InitGateway

NextCommand ==
    \/ CmdSendSave
    \/ \E ch \in CoreChannels, tpl \in GatewayTemplates : CmdSendAwait(1, ch, tpl)
    \/ \E o \in CoreOutcomes : AdapterReturn(1, o)
    \/ Tick
    \/ Wake(1)
    \/ CmdSendReturn
    \/ \E name \in TemplateNames : cli.pc = "idle" /\ register_template(name)
    \/ utcnow < MaxPollClock /\ UtcAdvance(1)

SpecCommand == InitCommand /\ [][NextCommand]_vars

\* ---------------------------------------------------------------------
\* SpecRecurring: a scheduler with a send_fn and one recurring entry with
\* interval 3600 s, start_at one second in the past and max_runs = 2; a
\* caller awaits process_due twice, while the clock runs second by second
\* or jumps an hour.

InitRecurring ==
    /\ InitEngine({DefaultMaxRetries}, {DefaultRetryDelay}, {})
    /\ now = 1
    /\ threads = [t \in LimiterThreads |-> IdleThread]
    /\ limiter = NoLimiter
    /\ buckets = <<>>
    /\ scheduler = MessageScheduler(TRUE)
    /\ jobs = NoJobs

NextRecurring ==
    \/ /\ scheduler.entries = <<>>
       /\ utcnow > 1
       /\ schedule_recurring(Hour, utcnow - 1, 2)
    \/ /\ scheduler.entries # <<>>
       /\ Len(jobs.callers) < 2
       /\ process_due_timed
    \/ \E o \in {"ok", "raise"} : SendFnReturn(1, o)
    \/ ProcessDueReturn
    \/ utcnow % Hour < MaxPollClock /\ UtcAdvance(1)
    \/ UtcAdvance(Hour)

SpecRecurring == InitRecurring /\ [][NextRecurring]_vars

\* ---------------------------------------------------------------------
\* SpecUnconfigured: the only adapter registered is a TelegramChannel built
\* without a token, so every send it is handed comes back "not configured".

\* TelegramChannel.send with self._enabled false
NotConfigured ==
    [kind |-> "fail", error |-> "Telegram not configured: missing token"]

InitUnconfigured == InitWith({0, 1, DefaultMaxRetries}, 1..MaxRetryDelay)

NextUnconfigured ==
    \/ \E mr \in 0..MaxDeepRetries : RouteNew(1, "telegram", mr)
    \/ AdapterReturn(1, NotConfigured)
    \/ Tick
    \/ Wake(1)
    \/ register_channel("telegram")

SpecUnconfigured == InitUnconfigured /\ [][NextUnconfigured]_vars

\* ---------------------------------------------------------------------
\* SpecRetry: one dispatch at a time, with deep retry budgets and every
\* adapter outcome.
InitRetry == InitWith({0, 1, DefaultMaxRetries}, 1..MaxRetryDelay)

NextRetry ==
    \/ \E ch \in CoreChannels, mr \in 0..MaxDeepRetries : RouteNew(1, ch, mr)
    \/ \E o \in AdapterOutcomes : AdapterReturn(1, o)
    \/ Tick
    \/ Wake(1)
    \/ \E ch \in CoreChannels : register_channel(ch)

SpecRetry == InitRetry /\ [][NextRetry]_vars

\* ---------------------------------------------------------------------
\* SpecRules: the rule table under add_rule and remove_rule.
RuleNames == {"a", "b"}
RulePriorities == {0, 1}
RulePool ==
    { RoutingRule(n, c, "slack", p, "none", e) :
        n \in RuleNames, c \in {"always", "telegram", "raises"},
        p \in RulePriorities, e \in BOOLEAN }

InitRules == InitWith({DefaultMaxRetries}, {DefaultRetryDelay})

NextRules ==
    \/ \E r \in RulePool : Len(rules) < MaxRuleList /\ add_rule(r)
    \/ \E n \in RuleNames : remove_rule(n)

SpecRules == InitRules /\ [][NextRules]_vars

\* ---------------------------------------------------------------------
\* SpecRouting: middleware that marks the content, each registered once,
\* rules that read it and rewrite target and content, one dispatch after the
\* other, no retries.
RoutingRules ==
    { RoutingRule("redirect", "marked", "slack", 1, "prefix", TRUE),
      RoutingRule("mirror", "telegram", "slack", 0, "copy", TRUE) }
RoutingOutcomes == {o \in CoreOutcomes : o.kind # "raise"}

InitRouting == InitWith({0}, {DefaultRetryDelay})

NextRouting ==
    \/ \E ch \in Channels : RouteNew(1, ch, 0)
    \/ \E m \in 1..MaxMsgs : RouteAgain(1, m)
    \/ \E o \in RoutingOutcomes : AdapterReturn(1, o)
    \/ \E ch \in Channels : register_channel(ch)
    \/ \E k \in MarkKinds :
          (\A i \in 1..Len(middleware) : middleware[i] # k) /\ add_middleware(k)
    \/ \E r \in RoutingRules :
          (\A i \in 1..Len(rules) : rules[i].name # r.name) /\ add_rule(r)

SpecRouting == InitRouting /\ [][NextRouting]_vars

\* =====================================================================
\* Properties
\* =====================================================================
Status(m) == msgs[m].status

\* task t comes back from the adapter and its dispatch ends
Ends(t) == tasks[t].pc = "sending" /\ tasks'[t].pc = "done"

\* the dead-letter queue grows only when a dispatch ends in failure
GrowsOnlyByDeadLetter ==
    Len(dead_letter_queue') > Len(dead_letter_queue)
        => \E t \in Tasks : Ends(t) /\ ~tasks'[t].result.success

\* the retry budget of a message as the retry loop reads it
Budget(m) == IF msgs[m].max_retries # 0 THEN msgs[m].max_retries ELSE max_retries

\* C1: when an adapter is registered and every attempt of a dispatch fails,
\* the dispatch returns success = false, leaves its message dead with
\* last_error the error of the latest attempt, and the dead-letter queue is
\* the queue before with exactly one entry for that message appended.
C1_AllAttemptsFailDeadLetters ==
    [][ /\ \A t \in Tasks :
            (Ends(t) /\ tasks'[t].outcome.kind # "ok") =>
                LET T == tasks'[t]
                    m == T.msg
                    n == Len(dead_letter_queue)
                IN /\ ~T.result.success
                   /\ msgs'[m].status = DEAD
                   /\ msgs'[m].last_error = ErrorText(T.outcome)
                   /\ Len(dead_letter_queue') = n + 1
                   /\ SubSeq(dead_letter_queue', 1, n) = dead_letter_queue
                   /\ dead_letter_queue'[n + 1].message = m
                   /\ dead_letter_queue'[n + 1].error = ErrorText(T.outcome)
        /\ GrowsOnlyByDeadLetter ]_vars

C1_Witness ==
    \E t \in Tasks :
        /\ tasks[t].pc = "done"
        /\ tasks[t].calls = 2
        /\ tasks[t].outcome = [kind |-> "raise", error |-> "E2"]
        /\ Status(tasks[t].msg) = DEAD
        /\ msgs[tasks[t].msg].last_error = "E2"
        /\ Len(dead_letter_queue) = 1
        /\ dead_letter_queue[1].message = tasks[t].msg

\* C2 as claimed: whenever a dispatch returns success = true, the message
\* the caller handed to route is sent with sent_at set, and the dispatch
\* appended no dead-letter entry.
C2_CallerMessageSent ==
    [][ /\ \A t \in Tasks :
            (Ends(t) /\ tasks'[t].result.success) =>
                /\ msgs'[tasks'[t].orig].status = SENT
                /\ msgs'[tasks'[t].orig].sent_at
                /\ dead_letter_queue' = dead_letter_queue
        /\ GrowsOnlyByDeadLetter ]_vars

\* C2 amended: whenever a dispatch returns success = true, the message that
\* was handed to the adapter (the caller's, or the object a middleware or a
\* rule transform returned in its place) is sent with sent_at set, and the
\* dispatch appended no dead-letter entry.
C2_DispatchedMessageSent ==
    [][ /\ \A t \in Tasks :
            (Ends(t) /\ tasks'[t].result.success) =>
                /\ msgs'[tasks'[t].msg].status = SENT
                /\ msgs'[tasks'[t].msg].sent_at
                /\ dead_letter_queue' = dead_letter_queue
        /\ GrowsOnlyByDeadLetter ]_vars

C2_Witness ==
    \E t \in Tasks :
        /\ tasks[t].pc = "done"
        /\ tasks[t].result.success
        /\ tasks[t].orig # tasks[t].msg
        /\ Status(tasks[t].msg) = SENT
        /\ msgs[tasks[t].msg].sent_at
        /\ Status(tasks[t].orig) = PENDING

\* C3: a dispatch that reaches the adapter calls it at least once and at
\* most N + 1 times, N the message's max_retries when non-zero and the
\* engine's otherwise; exactly k + 1 times with result.retry_count = k when
\* attempt k succeeds, exactly N + 1 times with result.retry_count = N when
\* every attempt fails.
C3_AttemptCount ==
    \A t \in Tasks :
        LET T == tasks[t]
            N == Budget(T.msg)
        IN /\ T.pc \in {"sending", "backoff"} =>
                /\ 1 <= T.calls /\ T.calls <= N + 1
                /\ T.calls = T.attempt + 1
           /\ (T.pc = "done" /\ T.outcome.kind = "ok") =>
                /\ T.result.success
                /\ 1 <= T.calls /\ T.calls <= N + 1
                /\ T.calls = T.result.retry_count + 1
           /\ (T.pc = "done" /\ T.outcome.kind \in {"fail", "raise"}) =>
                /\ ~T.result.success
                /\ T.calls = N + 1
                /\ T.result.retry_count = N

C3_Witness ==
    \E t \in Tasks :
        /\ tasks[t].pc = "done"
        /\ tasks[t].outcome.kind = "ok"
        /\ tasks[t].calls = 3
        /\ tasks[t].result.retry_count = 2
        /\ msgs[tasks[t].msg].max_retries = 0
        /\ max_retries = DefaultMaxRetries

\* C4: in every reachable state every message has retry_count <= its own
\* max_retries, whatever the max_retries of message and engine.
C4_RetryCountWithinOwnBudget ==
    \A m \in 1..Len(msgs) : msgs[m].retry_count <= msgs[m].max_retries

\* C5: on an engine with max_retries = 1, the first dispatch, of a message
\* with default fields through an adapter that always fails, makes exactly 2
\* attempts and returns success = false with "All 2 attempts failed",
\* leaving one dead letter.
C5_TwoAttemptsOnEngineBudget ==
    \A t \in Tasks :
        LET T == tasks[t]
        IN ( /\ T.pc = "done"
             /\ T.outcome.kind \in {"fail", "raise"}
             /\ stats.total = 1
             /\ max_retries = 1
             /\ msgs[T.msg].max_retries = DefaultMaxRetries )
           => /\ T.calls = 2
              /\ ~T.result.success
              /\ T.result.error.kind = "all_failed"
              /\ T.result.error.n = 2
              /\ Len(dead_letter_queue) = 1

\* C6: after attempt k fails with k < N the dispatch sleeps, and attempt
\* k + 1 starts no earlier than retry_delay * 2^k after that failure; after
\* the failure of attempt N it does not sleep but ends.
C6_ExponentialBackoff ==
    [][ \A t \in Tasks :
          LET T == tasks[t]
              U == tasks'[t]
          IN /\ (T.pc = "backoff" /\ U.pc = "sending") =>
                    /\ U.attempt = T.attempt + 1
                    /\ T.elapsed >= retry_delay * (2 ^ T.attempt)
             /\ (T.pc = "sending" /\ U.pc # "sending" /\ U.outcome.kind # "ok") =>
                    IF T.attempt < Budget(T.msg)
                    THEN U.pc = "backoff" /\ U.elapsed = 0 /\ U.attempt = T.attempt
                    ELSE U.pc = "done" ]_vars

C6_Witness ==
    \E t \in Tasks :
        /\ tasks[t].pc = "backoff"
        /\ tasks[t].attempt = 1
        /\ retry_delay = 2
        /\ tasks[t].elapsed = 4

\* C7: during attempt k, and the wait that follows it, the message of the
\* dispatch is sending when k = 0 and retrying when k > 0, with
\* retry_count = k; the dispatch ends with the message sent (success) or
\* dead (failure).
C7_StatusFollowsAttempts ==
    /\ [](\A t \in Tasks :
            tasks[t].pc \in {"sending", "backoff"} =>
                /\ Status(tasks[t].msg) =
                       IF tasks[t].attempt = 0 THEN SENDING ELSE RETRYING
                /\ msgs[tasks[t].msg].retry_count = tasks[t].attempt)
    /\ [][ \A t \in Tasks :
             Ends(t) =>
                msgs'[tasks'[t].msg].status =
                    IF tasks'[t].result.success THEN SENT ELSE DEAD ]_vars

C7_Witness ==
    \E t \in Tasks :
        /\ tasks[t].pc = "sending"
        /\ tasks[t].attempt = 1
        /\ Status(tasks[t].msg) = RETRYING
        /\ msgs[tasks[t].msg].retry_count = 1

\* task t pops a dead letter of message m and dispatches it again
RetryStart(t, m) ==
    /\ Free(t)
    /\ tasks'[t].retried
    /\ tasks'[t].orig = m
    /\ stats'.total = stats.total + 1
    /\ Len(dead_letter_queue') = Len(dead_letter_queue) - 1

\* task t goes into the first attempt of a dispatch of message m
FirstAttempt(t, m) ==
    /\ tasks[t].pc # "sending"
    /\ tasks'[t].pc = "sending"
    /\ tasks'[t].attempt = 0
    /\ tasks'[t].msg = m

\* C8 as claimed: once a message is sent its status never changes again,
\* and once it is dead only retry_dead_letter changes it.
C8_SentAndDeadAreTerminal ==
    [][ \A m \in 1..Len(msgs) :
          /\ Status(m) = SENT => msgs'[m].status = SENT
          /\ (Status(m) = DEAD /\ msgs'[m].status # DEAD) =>
                \E t \in Tasks : RetryStart(t, m) ]_vars

\* C8 amended: sent and dead end a dispatch; the status of a sent or dead
\* message changes again only when it is dispatched anew: at the first
\* attempt of a further dispatch of it, to sending, or at
\* retry_dead_letter of a dead-letter entry that holds it, to pending.
C8_TerminalUntilDispatchedAgain ==
    [][ \A m \in 1..Len(msgs) :
          (Status(m) \in {SENT, DEAD} /\ msgs'[m].status # Status(m)) =>
              \E t \in Tasks :
                  \/ FirstAttempt(t, m) /\ msgs'[m].status = SENDING
                  \/ RetryStart(t, m) /\ msgs'[m].status = PENDING ]_vars

C8_Witness ==
    \E t \in Tasks :
        /\ tasks[t].pc = "sending"
        /\ ~tasks[t].retried
        /\ Status(tasks[t].msg) = SENDING
        /\ msgs[tasks[t].msg].sent_at

\* C9: total never decreases, and whenever no dispatch is in flight
\* total = sent + errors.
C9_TotalIsSentPlusErrors ==
    /\ []((\A t \in Tasks : Free(t)) => stats.total = stats.sent + stats.errors)
    /\ [][stats'.total >= stats.total]_vars

\* the messages match_rule is asked about
Probes == {Message(ch, DefaultMaxRetries) : ch \in Channels}

\* the enabled rules, by their place in the order of their addition, whose
\* predicate holds for msg (a predicate that raises does not hold)
Holding(msg) ==
    {i \in 1..Len(added) : added[i].enabled /\ Condition(added[i], msg) = "true"}

\* among them, the earliest added of those of the highest priority
Chosen(msg) ==
    CHOOSE i \in Holding(msg) :
        \A j \in Holding(msg) :
            \/ added[j].priority < added[i].priority
            \/ added[j].priority = added[i].priority /\ i <= j

\* C10: after any add_rule and remove_rule calls, match_rule returns the
\* earliest added among the enabled rules of maximal priority whose
\* predicate holds, and None exactly when there is no such rule.
C10_MatchRuleIsArgmax ==
    \A msg \in Probes :
        IF Holding(msg) = {}
        THEN match_rule(msg) = 0
        ELSE /\ match_rule(msg) > 0
             /\ rules[match_rule(msg)] = added[Chosen(msg)]

C10_Witness ==
    \E msg \in Probes :
        /\ Cardinality(Holding(msg)) = 3
        /\ \E i, j \in Holding(msg) :
              /\ i < Chosen(msg) /\ Chosen(msg) < j
              /\ added[i].priority < added[Chosen(msg)].priority
              /\ added[j].priority = added[Chosen(msg)].priority
              /\ added[j] # added[Chosen(msg)]
        /\ rules[match_rule(msg)] = added[Chosen(msg)]
        /\ Len(added) = MaxRuleList

\* what route was handed by task t in this step: the content before the
\* call (a message constructed for the call has none yet)
Handed(t) ==
    LET o == tasks'[t].orig
    IN IF o \in 1..Len(msgs) THEN msgs[o].content ELSE <<>>

\* the content after the middleware chain, each middleware in the order of
\* its registration appending its mark
AfterMiddleware(t) == Handed(t) \o middleware

\* the rules, by index, that are enabled and whose predicate holds for the
\* middleware output
Eligible(t) ==
    LET probe == [msgs'[tasks'[t].orig] EXCEPT !.content = AfterMiddleware(t)]
    IN {i \in 1..Len(rules) : rules[i].enabled /\ Condition(rules[i], probe) = "true"}

\* C11: when a dispatch goes into its first adapter call, the adapter is the
\* one of the target_channel of the first rule that matches the middleware
\* output, and it is handed what that rule's transform returned; without a
\* matching rule it is the adapter of message.to_channel, handed the
\* middleware output; the middleware output carries the marks of the chain
\* in registration order.
C11_RuleTargetAndTransform ==
    [][ \A t \in One :
          (tasks[t].pc # "sending" /\ tasks'[t].pc = "sending") =>
              LET T == tasks'[t]
                  given == msgs'[T.msg]
              IN /\ T.channel \in handlers
                 /\ IF Eligible(t) = {}
                    THEN /\ T.channel = given.to_channel
                         /\ T.msg = T.orig
                         /\ given.content = AfterMiddleware(t)
                    ELSE LET rule == rules[CHOOSE i \in Eligible(t) :
                                             \A j \in Eligible(t) : i <= j]
                         IN /\ T.channel = rule.target_channel
                            /\ (rule.transform = "copy") = (T.msg # T.orig)
                            /\ given.content =
                                  IF rule.transform = "prefix"
                                  THEN <<"URGENT">> \o AfterMiddleware(t)
                                  ELSE AfterMiddleware(t) ]_vars

C11_Witness ==
    \E t \in One :
        /\ tasks[t].pc = "sending"
        /\ middleware = <<"b", "a">>
        /\ tasks[t].channel = "slack"
        /\ msgs[tasks[t].msg].to_channel = "telegram"
        /\ msgs[tasks[t].msg].content = <<"URGENT", "b", "a">>
        /\ Len(rules) = 2

\* task t is called as retry_dead_letter with an index that is in the queue
RetryStep(t) ==
    Free(t) /\ tasks'[t].retried /\ stats'.total = stats.total + 1

\* q without its entry i
Without(q, i) == [j \in 1..(Len(q) - 1) |-> IF j < i THEN q[j] ELSE q[j + 1]]

\* what C12 says of the call of retry_dead_letter and of the end of the
\* dispatch it starts
RetryRedispatches ==
    /\ \A t \in One :
          RetryStep(t) =>
              LET m == tasks'[t].orig
              IN /\ \E i \in 1..Len(dead_letter_queue) :
                        /\ dead_letter_queue[i].message = m
                        /\ dead_letter_queue' = Without(dead_letter_queue, i)
                 /\ msgs'[m].retry_count = 0
                 /\ msgs'[m].status \in {PENDING, SENDING}
                 /\ msgs'[m].status = SENDING => tasks'[t].msg = m
                 /\ tasks'[t].attempt = 0
                 /\ tasks'[t].calls <= 1
                 /\ tasks'[t].pc = "sending" =>
                        /\ tasks'[t].calls = 1
                        /\ msgs'[tasks'[t].msg].retry_count = 0
                        /\ msgs'[tasks'[t].msg].status = SENDING
    /\ \A t \in One :
          (Ends(t) /\ tasks[t].retried) =>
              IF tasks'[t].result.success
              THEN dead_letter_queue' = dead_letter_queue
              ELSE /\ tasks'[t].calls = Budget(tasks'[t].msg) + 1
                   /\ Len(dead_letter_queue') = Len(dead_letter_queue) + 1
                   /\ SubSeq(dead_letter_queue', 1, Len(dead_letter_queue))
                          = dead_letter_queue
                   /\ dead_letter_queue'[Len(dead_letter_queue')].message
                          = tasks'[t].msg
    /\ Len(dead_letter_queue') < Len(dead_letter_queue)
          => \E t \in One : RetryStep(t)

Routed(t) ==
    /\ tasks'[t] # tasks[t]
    /\ tasks'[t].pc \in {"sending", "done"}
    /\ \/ tasks[t].pc = "middleware"
       \/ Free(t) /\ stats'.total = stats.total + 1

\* C13: a dispatch whose target channel has no adapter registered returns
\* success = false with the no-handler error, total and errors incremented
\* by one each (total when route was entered), sent and dead as they were,
\* no adapter called, no backoff wait, no dead letter appended, status and
\* retry_count of every message as route found them (a message constructed
\* for the call or reset by retry_dead_letter is pending with retry_count 0,
\* a copy made by a middleware or transform is as the message it copies).
C13_NoHandlerFailsAtOnce ==
    [][ \A t \in One :
          (Routed(t) /\ tasks'[t].channel \notin handlers) =>
              LET T == tasks'[t]
              IN /\ T.pc = "done"
                 /\ ~T.result.success
                 /\ T.result.error.kind = "no_handler"
                 /\ T.result.error.text = T.channel
                 /\ T.calls = 0 /\ T.delay = 0
                 /\ stats'.errors = stats.errors + 1
                 /\ stats'.total =
                       stats.total + (IF tasks[t].pc = "middleware" THEN 0 ELSE 1)
                 /\ stats'.sent = stats.sent /\ stats'.dead = stats.dead
                 /\ Len(dead_letter_queue') <= Len(dead_letter_queue)
                 /\ ~T.retried => dead_letter_queue' = dead_letter_queue
                 /\ \A m \in 1..Len(msgs') :
                       CASE m \in 1..Len(msgs) /\ ~(RetryStep(t) /\ m = T.orig) ->
                              /\ msgs'[m].status = msgs[m].status
                              /\ msgs'[m].retry_count = msgs[m].retry_count
                         [] m = T.orig ->
                              /\ msgs'[m].status = PENDING
                              /\ msgs'[m].retry_count = 0
                         [] OTHER ->
                              \E k \in 1..(m - 1) :
                                  /\ msgs'[m].status = msgs'[k].status
                                  /\ msgs'[m].retry_count = msgs'[k].retry_count ]_vars

C13_Witness ==
    \E t \in One :
        /\ tasks[t].pc = "done"
        /\ tasks[t].result.error.kind = "no_handler"
        /\ tasks[t].channel = "slack"
        /\ msgs[tasks[t].orig].to_channel = "telegram"
        /\ handlers = {"telegram"}
        /\ stats.total = 2 /\ stats.errors = 1 /\ stats.sent = 1
        /\ dead_letter_queue = <<>>
        /\ Status(tasks[t].orig) = SENT

\* C14: a send to an adapter that lacks its credentials is terminal: once the
\* adapter has answered "not configured" the dispatch is over after that one
\* call, with no backoff wait and no further attempt.
C14_NotConfiguredIsTerminal ==
    \A t \in Tasks :
        tasks[t].outcome = NotConfigured =>
            /\ tasks[t].pc = "done"
            /\ tasks[t].calls = 1

\* the template named tpl cannot be rendered: it is not registered, or its
\* source does not compile
Unrenderable(tpl) == tpl # "" /\ (tpl \notin templates \/ tpl = "broken")

\* C15: when Gateway.send is given a message whose named template cannot be
\* rendered, it returns success = false in that step: no adapter is called,
\* no backoff is begun, and the counters, the dead letter queue and the
\* message's status and retry_count are what they were.
C15_BadTemplateFailsBeforeRoute ==
    [][\A t \in One :
        LET m == tasks'[t].orig
        IN (Free(t) /\ tasks'[t] # tasks[t] /\ Unrenderable(msgs'[m].template)) =>
            /\ tasks'[t].pc = "done"
            /\ ~tasks'[t].result.success
            /\ tasks'[t].result.message = m
            /\ tasks'[t].calls = 0
            /\ tasks'[t].attempt = 0
            /\ tasks'[t].delay = 0
            /\ stats' = stats
            /\ dead_letter_queue' = dead_letter_queue
            /\ IF m <= Len(msgs)
               THEN /\ msgs'[m].status = msgs[m].status
                    /\ msgs'[m].retry_count = msgs[m].retry_count
               ELSE /\ msgs'[m].status = PENDING
                    /\ msgs'[m].retry_count = 0]_vars

\* a message that was dead-lettered after a retry has been sent again with a
\* template that cannot be rendered
C15_Witness ==
    \E t \in One :
        /\ tasks[t].pc = "done"
        /\ tasks[t].result.error.kind = "template"
        /\ msgs[tasks[t].orig].status = DEAD
        /\ msgs[tasks[t].orig].retry_count = 1
        /\ stats.total = 1

\* C16: every adapter call of the dispatch engine is preceded by an admission
\* of the rate limiter: the step in which the engine hands a message to the
\* adapter takes a token from a bucket.
C16_AdapterCallsAreAdmitted ==
    [][\A t \in Tasks :
        (tasks'[t].pc = "sending" /\ tasks[t].pc # "sending") =>
            \E b \in DOMAIN buckets' :
                buckets'[b].total_consumed >
                    (IF b \in DOMAIN buckets THEN buckets[b].total_consumed ELSE 0)]_vars

\* C17: with refill_rate = 0 a token bucket admits at most capacity + burst
\* unit try_consume calls in all, however the threads that call it
\* interleave, and its token count is between 0 and capacity + burst in
\* every reachable state.
C17_ZeroRefillAdmitsAtMostCapacityPlusBurst ==
    \A b \in DOMAIN buckets :
        LET B == buckets[b]
        IN /\ 0 <= B.tokens
           /\ B.tokens <= B.config.capacity + B.config.burst
           /\ B.config.refill_rate = 0 =>
                B.total_consumed <= B.config.capacity + B.config.burst

\* a zero-refill bucket is drained while one thread holds its lock inside
\* try_consume, about to be turned away, and the other waits for the lock
C17_Witness ==
    \E b \in DOMAIN buckets :
        /\ buckets[b].config.refill_rate = 0
        /\ buckets[b].tokens = 0
        /\ buckets[b].total_consumed = buckets[b].config.capacity
        /\ \E t, u \in LimiterThreads :
                /\ threads[t].pc = "test" /\ threads[t].bucket = b
                /\ threads[u].pc = "acquire" /\ threads[u].bucket = b

\* C18: a new bucket holds capacity tokens, the burst not among them: with
\* refill_rate = 0 and cooldown_ms = 0 the try_consume calls that succeed
\* are the first capacity calls the bucket answers, and every later call
\* fails.
C18_FirstCapacityCallsSucceed ==
    /\ [](\A b \in DOMAIN buckets :
            buckets[b].config.refill_rate = 0 =>
                buckets[b].tokens =
                    buckets[b].config.capacity - buckets[b].total_consumed)
    /\ [][\A b \in DOMAIN buckets :
            LET B == buckets[b]
            IN (/\ B.config.refill_rate = 0
                /\ B.config.cooldown_ms = 0
                /\ Answered(buckets'[b]) = Answered(B) + 1) =>
                    (buckets'[b].total_consumed = B.total_consumed + 1
                        <=> Answered(B) < B.config.capacity)]_vars

\* a bucket of capacity 2 and burst 1 has admitted two calls and turned the
\* third away
C18_Witness ==
    \E b \in DOMAIN buckets :
        /\ buckets[b].config = BucketConfig(2, 0, 1, 0)
        /\ buckets[b].total_consumed = 2
        /\ buckets[b].total_rejected = 1

\* C19: on one bucket two successful consumes are at least cooldown_ms
\* apart, whatever the token count: a try_consume that reads the clock
\* less than cooldown_ms after the latest successful consume is rejected,
\* takes no token and is counted as rejected.
C19_CooldownBetweenConsumes ==
    [][/\ \A b \in DOMAIN buckets :
            LET B == buckets[b]
            IN (buckets'[b].total_consumed = B.total_consumed + 1
                    /\ B.last_consume > 0) =>
                (buckets'[b].last_consume - B.last_consume) * 1000
                    >= B.config.cooldown_ms
       /\ \A t \in LimiterThreads :
            LET B == buckets[threads[t].bucket]
            IN (/\ threads[t].pc = "cooldown"
                /\ threads'[t] # threads[t]
                /\ B.last_consume > 0
                /\ (now - B.last_consume) * 1000 < B.config.cooldown_ms) =>
                    /\ threads'[t].pc = "done"
                    /\ ~threads'[t].result
                    /\ buckets'[threads[t].bucket] =
                            [B EXCEPT !.total_rejected = @ + 1, !.lock = 0]]_vars

\* a zero-refill bucket has admitted one call and turned the next away while
\* it held a token: the cooldown rejected it
C19_Witness ==
    \E b \in DOMAIN buckets :
        /\ buckets[b].config = BucketConfig(2, 0, 0, 1500)
        /\ buckets[b].total_consumed = 1
        /\ buckets[b].total_rejected = 1
        /\ buckets[b].tokens = 1
        /\ \E t \in LimiterThreads : threads[t].pc = "done" /\ ~threads[t].result

\* the buckets of check, in the order it consults them
Stages == <<"global", "channel", "target">>

\* C20: check(channel, target) consults the global bucket, then the
\* channel's, then (only when a target is given) the one of channel:target,
\* stops at the first that denies, and returns true iff every bucket it
\* consulted admitted one token; the checks that a channel bucket of
\* capacity c, zero refill and zero cooldown answers succeed while it has
\* answered fewer than c, and fail from then on.
C20_CheckConsultsInOrder ==
    \A t \in LimiterThreads :
        LET T == threads[t]
            n == Len(T.trace)
            last == IF T.target = <<>> THEN 2 ELSE 3
        IN T.op = "check" =>
            /\ n <= last
            /\ \A i \in 1..n :
                    /\ T.trace[i].stage = Stages[i]
                    /\ i < n => T.trace[i].admitted
            /\ n >= 1 => T.trace[1].bucket = limiter.global
            /\ n >= 2 =>
                    [key |-> T.channel, bucket |-> T.trace[2].bucket] \in limiter.map
            /\ n >= 3 =>
                    [key |-> Key(T.channel, T.target), bucket |-> T.trace[3].bucket]
                        \in limiter.map
            /\ T.pc = "done" =>
                    /\ n >= 1
                    /\ T.result = (\A i \in 1..n : T.trace[i].admitted)
                    /\ T.result => n = last
                    /\ LET C == buckets[T.trace[2].bucket].config
                       IN (n >= 2 /\ C.refill_rate = 0 /\ C.cooldown_ms = 0) =>
                            (T.result <=> T.trace[2].ordinal < C.capacity)

\* the third check on a channel whose bucket has capacity 2 was admitted by
\* the global bucket and denied by the channel's
C20_Witness ==
    \E t \in LimiterThreads :
        /\ threads[t].pc = "done"
        /\ threads[t].op = "check"
        /\ ~threads[t].result
        /\ Len(threads[t].trace) = 2
        /\ threads[t].trace[2].ordinal = 2
        /\ buckets[threads[t].trace[2].bucket].config.capacity = 2

\* key k is the channel's own key or one of its channel:target keys
Under(k, channel) ==
    \/ k = channel
    \/ /\ Len(k) > Len(channel)
       /\ \A i \in 1..Len(channel) : k[i] = channel[i]
       /\ k[Len(channel) + 1] = ":"

\* C21: reset(channel) removes the bucket of that channel and of every
\* channel:target key under it and leaves every other key with the bucket
\* it had, touching no bucket's tokens or statistics; reset() removes every
\* channel and target bucket; the check that follows a reset of its channel
\* is answered by buckets that have answered no call before, and admitted.
C21_ResetRemovesChannelBuckets ==
    /\ [](\A t \in OneThread :
            LET T == threads[t]
            IN /\ (T.op = "reset" /\ T.pc = "done") =>
                    limiter.map = IF T.channel = <<>> THEN {}
                                  ELSE {e \in T.snap : ~Under(e.key, T.channel)}
               /\ (/\ T.op = "check"
                   /\ T.after.reset
                   /\ T.after.channel \in {<<>>, T.channel}) =>
                        \A i \in 2..Len(T.trace) :
                            T.trace[i].ordinal = 0 /\ T.trace[i].admitted)
    /\ [][\A t \in OneThread :
            (threads'[t] # threads[t] /\ threads'[t].op = "reset") =>
                buckets' = buckets]_vars

\* the one token of the channel was taken, the channel was reset, and the
\* check after the reset was admitted by a second bucket for the channel
C21_Witness ==
    \E t \in OneThread :
        LET T == threads[t]
        IN /\ T.op = "check" /\ T.pc = "done" /\ T.result
           /\ T.channel = <<"test">>
           /\ T.after = [reset |-> TRUE, channel |-> <<"test">>]
           /\ \E b \in 2..Len(buckets) :
                /\ b < T.trace[2].bucket
                /\ buckets[b].config = ResetLimits[<<"test">>]
                /\ buckets[b].tokens = 0

\* thread t is inside try_consume on the bucket it got for its key
Consuming(t) ==
    /\ threads[t].op = "check"
    /\ threads[t].stage \in {"channel", "target"}
    /\ threads[t].pc \in {"acquire", "cooldown", "test", "take"}

\* C22: under any interleaving of check and reset calls from parallel
\* threads no call fails with an error, and the callers that are consuming
\* for one key at the same time consume from one bucket.
C22_OneLiveBucketPerKey ==
    /\ \A t \in LimiterThreads : threads[t].pc # "raised"
    /\ \A t, u \in LimiterThreads :
            (Consuming(t) /\ Consuming(u) /\ threads[t].key = threads[u].key) =>
                threads[t].bucket = threads[u].bucket

\* ---------------------------------------------------------------------
\* The schedule entries (SpecScheduler)

\* the runs an entry is allowed: one for a one-shot entry, max_runs for a
\* recurring entry with max_runs > 0, and 0 stands for no limit
RunsAllowed(E) == IF E.recurring THEN E.max_runs ELSE 1

\* C23: each execution of an entry adds one to run_count and sets
\* last_run_at to the clock; after it a recurring entry with max_runs = 0 or
\* run_count < max_runs keeps its status and has scheduled_at moved on by
\* exactly interval_seconds, and every other entry is completed; so, with
\* one process_due call after the other, a one-shot entry is executed once
\* and a recurring entry with max_runs = m > 0 m times: neither is sent or
\* run more often, and it is completed exactly at that count
C23_AdvanceCountsAndCompletes ==
    /\ [](\A i \in DOMAIN scheduler.entries :
            LET E == scheduler.entries[i]
            IN /\ RunsAllowed(E) > 0 =>
                    E.run_count <= RunsAllowed(E) /\ E.sends <= RunsAllowed(E)
               /\ E.status = "completed" =>
                    RunsAllowed(E) > 0 /\ E.run_count = RunsAllowed(E))
    /\ [][\A i \in DOMAIN scheduler.entries :
            LET E == scheduler.entries[i]
                F == scheduler.entries'[i]
            IN F.run_count # E.run_count =>
                /\ F.run_count = E.run_count + 1
                /\ F.last_run_at = utcnow
                /\ IF E.recurring /\ (E.max_runs = 0 \/ F.run_count < E.max_runs)
                   THEN /\ F.status = E.status
                        /\ F.scheduled_at = E.scheduled_at + E.interval_seconds
                   ELSE /\ F.status = "completed"
                        /\ F.scheduled_at = E.scheduled_at]_vars

\* a one-shot entry sent and run once and a recurring entry with
\* max_runs = 2 sent and run twice, both completed, after the clock moved
C23_Witness ==
    /\ Len(scheduler.entries) = 2
    /\ \E i, j \in DOMAIN scheduler.entries :
        /\ ~scheduler.entries[i].recurring
        /\ scheduler.entries[i].status = "completed"
        /\ scheduler.entries[i].sends = 1
        /\ scheduler.entries[i].run_count = 1
        /\ scheduler.entries[j].recurring
        /\ scheduler.entries[j].max_runs = 2
        /\ scheduler.entries[j].status = "completed"
        /\ scheduler.entries[j].sends = 2
        /\ scheduler.entries[j].run_count = 2
        /\ scheduler.entries[j].scheduled_at = 2
        /\ scheduler.entries[j].last_run_at > 1
    /\ utcnow = MaxPollClock
    /\ jobs.poll.pc = "returned"

\* ---------------------------------------------------------------------
\* The hourly entry polled twice (SpecRecurring)

\* both process_due calls of the caller have returned
TwoPollsReturned == Len(jobs.callers) = 2 /\ jobs.poll.pc = "returned"

\* C24 as stated: for a recurring entry with interval 3600 s, start_at one
\* second in the past and max_runs = 2, two process_due calls made one
\* second apart call send_fn twice and leave the entry completed with
\* run_count = 2
C24_TwoPollsASecondApartComplete ==
    (TwoPollsReturned /\ jobs.callers[2] = jobs.callers[1] + 1) =>
        /\ scheduler.entries[1].sends = 2
        /\ scheduler.entries[1].status = "completed"
        /\ scheduler.entries[1].run_count = 2

\* C24 as the code has it: the first process_due call runs the entry and
\* moves scheduled_at to start_at + 3600 s; a second call made before that
\* time finds nothing due, so send_fn has been called once, run_count is 1
\* and the entry is pending; a second call made at or after that time runs
\* the entry again and completes it with run_count = 2
C24_SecondRunWaitsForInterval ==
    TwoPollsReturned =>
        LET E == scheduler.entries[1]
            start_at == E.created_at - 1
        IN IF jobs.callers[2] < start_at + Hour
           THEN /\ E.sends = 1
                /\ E.run_count = 1
                /\ E.status = "pending"
                /\ E.scheduled_at = start_at + Hour
           ELSE /\ E.sends = 2
                /\ E.run_count = 2
                /\ E.status = "completed"

\* two calls one second apart have returned: send_fn was called once and
\* the entry waits, pending, for start_at + 3600 s
C24_Witness ==
    /\ TwoPollsReturned
    /\ jobs.callers[2] = jobs.callers[1] + 1
    /\ scheduler.entries[1].sends = 1
    /\ scheduler.entries[1].run_count = 1
    /\ scheduler.entries[1].status = "pending"
    /\ scheduler.entries[1].scheduled_at = scheduler.entries[1].created_at - 1 + Hour

\* the entries whose send_fn call of the current poll has not come back
Awaited == IF jobs.poll.pc = "waiting" THEN jobs.poll.pending ELSE {}

\* C25: when send_fn raises for an entry, the entry is advanced exactly
\* once (run_count + 1, then scheduled_at moved on or status completed),
\* last_result is the error and no callback is invoked for the run; the
\* poll goes on, the other entries are as they were and still awaited, and
\* process_due returns the number of due entries; every send_fn call, of
\* this poll and of later ones, ends in exactly one run
C25_SendErrorSpendsTheRun ==
    /\ [](scheduler.send_fn =>
            \A i \in DOMAIN scheduler.entries :
                scheduler.entries[i].sends =
                    scheduler.entries[i].run_count + (IF i \in Awaited THEN 1 ELSE 0))
    /\ [](jobs.poll.pc = "returned" => jobs.poll.result = Len(jobs.poll.due))
    /\ [][\A i \in Awaited :
            LET E == scheduler.entries[i]
                F == scheduler.entries'[i]
            IN (i \notin jobs.poll.pending' /\ F.last_result = "error") =>
                /\ F.run_count = E.run_count + 1
                /\ F.notified = E.notified
                /\ IF E.recurring /\ (E.max_runs = 0 \/ F.run_count < E.max_runs)
                   THEN F.scheduled_at = E.scheduled_at + E.interval_seconds
                        /\ F.status = E.status
                   ELSE F.status = "completed"
                /\ jobs.poll.pc' = "waiting"
                /\ jobs.poll.pending' = jobs.poll.pending \ {i}
                /\ \A j \in DOMAIN scheduler.entries \ {i} :
                        scheduler.entries'[j] = scheduler.entries[j]]_vars

\* a poll of two due entries has returned 2: send_fn raised for one of
\* them, a recurring entry that had raised in an earlier poll as well, and
\* returned for the other, for which the callback was called
C25_Witness ==
    /\ scheduler.callbacks # <<>>
    /\ jobs.poll.pc = "returned"
    /\ jobs.poll.result = 2
    /\ \E i, j \in DOMAIN scheduler.entries :
        /\ scheduler.entries[i].recurring
        /\ scheduler.entries[i].run_count = 2
        /\ scheduler.entries[i].last_result = "error"
        /\ scheduler.entries[i].notified = 0
        /\ scheduler.entries[i].last_run_at = utcnow
        /\ scheduler.entries[j].run_count = 1
        /\ scheduler.entries[j].last_result = "ok"
        /\ scheduler.entries[j].notified = 1
        /\ scheduler.entries[j].last_run_at = utcnow

\* ---------------------------------------------------------------------
\* The worker task (SpecWorker)

\* coroutine c makes a call in this step
Calls(c, op) ==
    jobs.stops'[c].flip # jobs.stops[c].flip /\ jobs.stops'[c].op = op

\* C26 as stated, a live task being one that has not exited: under any
\* interleaving of start and stop calls at most one worker task is live
C26_AtMostOneLiveWorker == Cardinality(Live) <= 1

\* C26 as the code has it: start on a running scheduler and stop on a
\* stopped one change neither the flags nor any task; at most one worker
\* task that has not been cancelled is live, and it is the task of the
\* scheduler; a stop that returns has its task exited, and a cancelled
\* task never runs again
C26_OneUncancelledWorker ==
    /\ [](/\ Cardinality(Uncancelled) <= 1
          /\ Uncancelled \subseteq {scheduler.task}
          /\ scheduler.running => Uncancelled = {scheduler.task}
          /\ \A c \in Callers :
                (jobs.stops[c].op = "stop" /\ jobs.stops[c].pc = "returned"
                    /\ jobs.stops[c].task # 0)
                    => jobs.workers[jobs.stops[c].task].pc = "done")
    /\ [][\A c \in Callers :
            /\ (Calls(c, "start") /\ scheduler.running) =>
                    scheduler' = scheduler /\ jobs.workers' = jobs.workers
            /\ (Calls(c, "stop") /\ ~scheduler.running /\ Uncancelled = {}) =>
                    scheduler' = scheduler /\ jobs.workers' = jobs.workers
            /\ \A k \in DOMAIN jobs.workers :
                    jobs.workers[k].cancelled =>
                        /\ jobs.workers'[k].cancelled
                        /\ jobs.workers'[k].pc \in {jobs.workers[k].pc, "done"}]_vars

\* a stop is still awaiting the task it cancelled while another coroutine
\* has started the scheduler again: two tasks have not exited, one of them
\* cancelled
C26_Witness ==
    /\ \E c \in Callers : jobs.stops[c].pc = "awaiting"
    /\ \E c \in Callers : jobs.stops[c].op = "start"
    /\ scheduler.running
    /\ Cardinality(Live) = 2
    /\ Cardinality(Uncancelled) = 1

\* ---------------------------------------------------------------------
\* The awaited broadcast (SpecBroadcast)

\* C27: broadcast(message, channels) forms one copy per listed channel, a
\* Message object of its own with that channel as to_channel and with the
\* target metadata["target:<channel>"] if the key is there and the
\* message's target otherwise; each copy is dispatched by a coroutine of
\* its own; and the list returned has len(channels) results, result i
\* being the outcome of the copy for channels[i], in whatever order the
\* dispatches were completed
C27_BroadcastResultsByPosition ==
    gathers.pc # "idle" =>
        /\ Len(msgs) = Len(gathers.channels)
        /\ \A i \in DOMAIN gathers.channels :
            /\ msgs[i].to_channel = gathers.channels[i]
            /\ msgs[i].target =
                    IF gathers.channels[i] \in gathers.meta
                    THEN "target:" \o gathers.channels[i] ELSE "target"
            /\ tasks[gathers.slots[i]].pc # "created" =>
                    tasks[gathers.slots[i]].orig = i
            /\ \A j \in DOMAIN gathers.channels :
                    i # j => gathers.slots[i] # gathers.slots[j]
        /\ gathers.pc = "returned" =>
            /\ Len(gathers.results) = Len(gathers.channels)
            /\ \A i \in DOMAIN gathers.channels :
                /\ gathers.results[i].message = i
                /\ gathers.results[i].channel = gathers.channels[i]
                /\ gathers.results[i].success <=> msgs[i].status = SENT
                /\ gathers.results[i] = tasks[gathers.slots[i]].result

\* a broadcast to telegram twice has returned: the second copy was
\* completed first and failed, the first succeeded after a retry, and both
\* went to the target named in the metadata
C27_Witness ==
    /\ gathers.pc = "returned"
    /\ gathers.channels = <<"telegram", "telegram">>
    /\ gathers.meta = {"telegram"}
    /\ gathers.done = <<2, 1>>
    /\ gathers.results[1].success
    /\ gathers.results[1].retry_count = 1
    /\ ~gathers.results[2].success
    /\ msgs[2].status = DEAD
    /\ msgs[1].target = "target:telegram"

\* ---------------------------------------------------------------------
\* The cancelled dispatch (SpecShutdown)

\* the dead-letter queue holds an entry for message m
DeadLettered(m) ==
    \E i \in DOMAIN dead_letter_queue : dead_letter_queue[i].message = m

\* C28: a dispatch cancelled while suspended in an adapter call or in a
\* backoff wait has no DLQ entry appended for its message and is reported
\* as a failure: it has a SendResult without success for the message, or
\* the message has left the statuses sending and retrying, or the failure
\* is counted in the errors of the engine
C28_CancelledDispatchReportsFailure ==
    \A t \in Tasks :
        tasks[t].pc = "cancelled" =>
            /\ ~DeadLettered(tasks[t].msg)
            /\ \/ tasks[t].result # NoResult /\ ~tasks[t].result.success
               \/ msgs[tasks[t].msg].status \notin {SENDING, RETRYING}
               \/ stats["errors"] > 0

\* a cancelled dispatch makes no further attempt and appends nothing to
\* the dead-letter queue for its message
CancelledDispatchStops ==
    [][\A t \in Tasks :
        tasks[t].pc = "cancelled" =>
            /\ tasks'[t] = tasks[t]
            /\ msgs'[tasks[t].msg] = msgs[tasks[t].msg]
            /\ ~DeadLettered(tasks[t].msg)']_vars

\* ---------------------------------------------------------------------
\* The store (SpecStore)

\* the rows that a step of update_status has written: the row was there,
\* is changed, and is not the pending row that save_message writes
Rewritten ==
    {id \in DOMAIN store : store'[id] # store[id] /\ store'[id].status # PENDING}

\* C30: update_status stamps sent_at only when it is not yet set: an
\* update to sent of a row that has a sent_at leaves it unchanged, every
\* update to sent, with or without an error text, leaves the row with a
\* sent_at, and an update to any other status leaves sent_at unchanged
C30_SentAtStampedOnce ==
    [][\A id \in Rewritten :
        IF store'[id].status = SENT
        THEN /\ store[id].sent_at # 0 => store'[id].sent_at = store[id].sent_at
             /\ store'[id].sent_at # 0
        ELSE store'[id].sent_at = store[id].sent_at]_vars

\* what the code does: an update to sent without an error text sets
\* sent_at to the time of the update, whatever it was; one with an error
\* text, and an update to any other status, leave sent_at as it was
SentAtOverwritten ==
    [][\A id \in Rewritten :
        \/ store'[id].sent_at = store[id].sent_at
        \/ store'[id].status = SENT /\ store'[id].sent_at = utcnow]_vars

\* ---------------------------------------------------------------------
\* The send command (SpecCommand)

\* C29: the status transitions the engine makes on a message are written
\* to the store as they occur, so that after the dispatch has completed
\* and the command has returned the row's status is the message's status
C29_StoreRowFollowsMessage ==
    cli.pc = "returned" => store[cli.msg].status = msgs[cli.msg].status

\* what the code does: the row is sent exactly when the dispatch succeeded
\* and failed otherwise, whatever status the engine left on the message
RowSentIffMessageSent ==
    cli.pc = "returned" =>
        /\ store[cli.msg].status \in {SENT, "failed"}
        /\ store[cli.msg].status = SENT <=> msgs[cli.msg].status = SENT
        /\ store[cli.msg].status = SENT <=> tasks[cli.task].result.success

\* ---------------------------------------------------------------------
\* Message.to_dict and Message.from_dict (models.py).  An enum member is a
\* record with its value, a datetime a number of seconds, its isoformat()
\* a record with that number; a dict is a function on its keys, and the
\* dicts metadata and template_vars are the sets of their keys.

ChannelType(value) == [enum |-> "ChannelType", value |-> value]
MessagePriority(value) == [enum |-> "MessagePriority", value |-> value]
MessageStatus(value) == [enum |-> "MessageStatus", value |-> value]

\* datetime.isoformat(); None, the 0 among the datetimes, serialises to None
IsoFormat(t) == [iso |-> t]

\* Attachment(filename, content_type, url, data, size)
Attachment(filename, data) ==
    [filename |-> filename, content_type |-> "image/png", url |-> "None",
     data |-> data, size |-> 1]

\* Attachment.to_dict
AttachmentToDict(a) ==
    [filename |-> a.filename, content_type |-> a.content_type, url |-> a.url,
     size |-> a.size]

\* Attachment(**a) for a dict without the key data
AttachmentFromDict(d) ==
    [filename |-> d.filename, content_type |-> d.content_type, url |-> d.url,
     data |-> "None", size |-> d.size]

\* Message.to_dict
to_dict(M) ==
    [id |-> M.id,
     from_channel |-> M.from_channel.value,
     to_channel |-> M.to_channel.value,
     content |-> M.content,
     target |-> M.target,
     attachments |-> [i \in DOMAIN M.attachments |-> AttachmentToDict(M.attachments[i])],
     metadata |-> M.metadata,
     priority |-> M.priority.value,
     status |-> M.status.value,
     template |-> M.template,
     created_at |-> IsoFormat(M.created_at),
     sent_at |-> IsoFormat(M.sent_at),
     retry_count |-> M.retry_count,
     last_error |-> M.last_error]

\* data.get(key, default)
Get(data, key, default) == IF key \in DOMAIN data THEN data[key] ELSE default

\* Message.from_dict, called when datetime.utcnow() is clock: created_at
\* and sent_at are not passed on, so they take the defaults of the dataclass
from_dict(data, clock) ==
    [id |-> Get(data, "id", "uuid4"),
     from_channel |-> ChannelType(data.from_channel),
     to_channel |-> ChannelType(data.to_channel),
     content |-> Get(data, "content", ""),
     target |-> Get(data, "target", ""),
     attachments |-> LET as == Get(data, "attachments", <<>>)
                     IN [i \in DOMAIN as |-> AttachmentFromDict(as[i])],
     metadata |-> Get(data, "metadata", {}),
     priority |-> MessagePriority(Get(data, "priority", 5)),
     status |-> MessageStatus(Get(data, "status", PENDING)),
     template |-> Get(data, "template", "None"),
     template_vars |-> Get(data, "template_vars", {}),
     created_at |-> clock,
     sent_at |-> 0,
     retry_count |-> Get(data, "retry_count", 0),
     max_retries |-> Get(data, "max_retries", DefaultMaxRetries),
     last_error |-> Get(data, "last_error", "None")]

PublicFields ==
    {"id", "from_channel", "to_channel", "content", "target", "attachments",
     "metadata", "priority", "status", "template", "template_vars",
     "created_at", "sent_at", "retry_count", "max_retries", "last_error"}

\* the messages a caller constructs, or an engine has dispatched, at clock
CodecMessages(clock) ==
    [id : {"m1"},
     from_channel : {ChannelType("webhook")},
     to_channel : {ChannelType(c) : c \in Channels},
     content : {"text"},
     target : {"target"},
     attachments : {<<>>, <<Attachment("a.png", "None")>>,
                    <<Attachment("a.png", "bytes")>>},
     metadata : {{"username"}},
     priority : {MessagePriority(8)},
     status : {MessageStatus(PENDING), MessageStatus(SENT)},
     template : {"welcome"},
     template_vars : {{}, {"name"}},
     created_at : {clock},
     sent_at : {0, clock},
     retry_count : {1},
     max_retries : {1, DefaultMaxRetries},
     last_error : {"E1"}]

CodecFrame ==
    UNCHANGED <<EngineVars, LimiterVars, utcnow, scheduler, jobs, store, cli,
                gathers, analytics, renderer, api, polls>>

\* a Message is constructed
Construct(M) ==
    /\ codec.pc = "idle"
    /\ codec' = [pc |-> "made", message |-> M]
    /\ CodecFrame

\* d = message.to_dict()
ToDict ==
    /\ codec.pc = "made"
    /\ codec' = [pc |-> "dict", message |-> codec.message,
                 dict |-> to_dict(codec.message)]
    /\ CodecFrame

\* restored = Message.from_dict(d)
FromDict ==
    /\ codec.pc = "dict"
    /\ codec' = [pc |-> "restored", message |-> codec.message,
                 dict |-> codec.dict, restored |-> from_dict(codec.dict, utcnow)]
    /\ CodecFrame

\* ---------------------------------------------------------------------
\* SpecCodec: a message is constructed, serialised and restored while the
\* clock runs.
InitCodec == InitOf({DefaultMaxRetries}, {DefaultRetryDelay}, {})

NextCodec ==
    \/ \E M \in CodecMessages(utcnow) : Construct(M)
    \/ ToDict
    \/ FromDict
    \/ utcnow < MaxPollClock /\ UtcAdvance(1)

SpecCodec == InitCodec /\ [][NextCodec]_vars

\* C31: Message.from_dict(m.to_dict()) agrees with m on every public field
C31_RoundTripPreservesFields ==
    codec.pc = "restored" =>
        \A f \in PublicFields : codec.restored[f] = codec.message[f]

\* what the round trip keeps: every public field but template_vars,
\* max_retries, created_at, sent_at and the data of the attachments
RoundTripKeeps ==
    codec.pc = "restored" =>
        /\ \A f \in PublicFields \ {"template_vars", "max_retries", "created_at",
                                     "sent_at", "attachments"} :
                codec.restored[f] = codec.message[f]
        /\ codec.restored.template_vars = {}
        /\ codec.restored.max_retries = DefaultMaxRetries
        /\ codec.restored.sent_at = 0
        /\ codec.restored.created_at >= codec.message.created_at
        /\ Len(codec.restored.attachments) = Len(codec.message.attachments)

\* ---------------------------------------------------------------------
\* The analytics collector (analytics.py).  Its callers are threads; a
\* method is modelled by the steps between its accesses to shared state.

AnalyticsFrame ==
    UNCHANGED <<EngineVars, LimiterVars, utcnow, scheduler, jobs, store, cli,
                gathers, codec, renderer, api, polls>>

RECURSIVE SumOver(_, _)
SumOver(f, S) ==
    IF S = {} THEN 0
    ELSE LET c == CHOOSE c \in S : TRUE IN f[c] + SumOver(f, S \ {c})

\* thread t calls op: a method that begins `with self._lock:` waits for the
\* lock and takes it; summary begins by reading self._total_sent, unlocked
AnalyticsCall(t, op, channel) ==
    LET T == analytics.threads[t]
    IN /\ T.pc \in {"idle", "done"}
       /\ analytics.calls < MaxRecords
       /\ op = "summary" \/ analytics.lock = 0
       /\ analytics' = [analytics EXCEPT
                !.calls = @ + 1,
                !.lock = IF op = "summary" THEN @ ELSE t,
                !.threads[t] = [IdleReader EXCEPT
                    !.op = op, !.channel = channel,
                    !.pc = IF op = "summary" THEN "total_failed" ELSE "locked",
                    !.seen.total_sent = IF op = "summary"
                                        THEN analytics.total_sent ELSE @]]
       /\ AnalyticsFrame

\* record_sent and record_failed inside the lock: self._total_... += 1
RecordTotal(t) ==
    LET T == analytics.threads[t]
    IN /\ T.pc = "locked"
       /\ T.op \in {"record_sent", "record_failed"}
       /\ analytics' = [analytics EXCEPT
                !.total_sent = IF T.op = "record_sent" THEN @ + 1 ELSE @,
                !.total_failed = IF T.op = "record_failed" THEN @ + 1 ELSE @,
                !.threads[t].pc = "channel"]
       /\ AnalyticsFrame

\* self._channel_...[channel] += 1, the rest of the block, and the release
RecordChannel(t) ==
    LET T == analytics.threads[t]
    IN /\ T.pc = "channel"
       /\ analytics' = [analytics EXCEPT
                !.channel_sent[T.channel] =
                    IF T.op = "record_sent" THEN @ + 1 ELSE @,
                !.channel_failed[T.channel] =
                    IF T.op = "record_failed" THEN @ + 1 ELSE @,
                !.recorded.sent = IF T.op = "record_sent" THEN @ + 1 ELSE @,
                !.recorded.failed = IF T.op = "record_failed" THEN @ + 1 ELSE @,
                !.lock = 0,
                !.threads[t].pc = "done"]
       /\ AnalyticsFrame

\* reset inside the lock: the totals are set to 0
ResetTotals(t) ==
    LET T == analytics.threads[t]
    IN /\ T.pc = "locked"
       /\ T.op = "reset"
       /\ analytics' = [analytics EXCEPT
                !.total_sent = 0, !.total_failed = 0,
                !.threads[t].pc = "clear"]
       /\ AnalyticsFrame

\* the dicts are cleared and the lock released
ResetChannelCounts(t) ==
    LET T == analytics.threads[t]
    IN /\ T.pc = "clear"
       /\ analytics' = [analytics EXCEPT
                !.channel_sent = [c \in Channels |-> 0],
                !.channel_failed = [c \in Channels |-> 0],
                !.recorded = [sent |-> 0, failed |-> 0],
                !.lock = 0,
                !.threads[t].pc = "done"]
       /\ AnalyticsFrame

\* what get_channel_stats returns for the counters as they are
ChannelStats ==
    [c \in Channels |-> [sent |-> analytics.channel_sent[c],
                         failed |-> analytics.channel_failed[c]]]

\* get_channel_stats and get_success_rate inside the lock: they read, and
\* release
ReadLocked(t) ==
    LET T == analytics.threads[t]
    IN /\ T.pc = "locked"
       /\ T.op \in {"get_channel_stats", "get_success_rate"}
       /\ analytics' = [analytics EXCEPT
                !.lock = 0,
                !.threads[t].pc = "done",
                !.threads[t].seen =
                    [total_sent |-> analytics.total_sent,
                     total_failed |-> analytics.total_failed,
                     by_channel |-> ChannelStats]]
       /\ AnalyticsFrame

\* summary reads self._total_failed, unlocked
SummaryTotalFailed(t) ==
    LET T == analytics.threads[t]
    IN /\ T.pc = "total_failed"
       /\ analytics' = [analytics EXCEPT
                !.threads[t].pc = "by_channel",
                !.threads[t].seen.total_failed = analytics.total_failed]
       /\ AnalyticsFrame

\* summary calls get_channel_stats, which waits for the lock, reads and
\* releases; the other locked readers summary calls change nothing
SummaryByChannel(t) ==
    LET T == analytics.threads[t]
    IN /\ T.pc = "by_channel"
       /\ analytics.lock = 0
       /\ analytics' = [analytics EXCEPT
                !.threads[t].pc = "done",
                !.threads[t].seen.by_channel = ChannelStats]
       /\ AnalyticsFrame

\* ---------------------------------------------------------------------
\* SpecAnalytics: two threads record, reset and read one collector.
AnalyticsOps ==
    {"record_sent", "record_failed", "reset", "summary", "get_channel_stats",
     "get_success_rate"}

InitAnalytics == InitOf({DefaultMaxRetries}, {DefaultRetryDelay}, {})

NextAnalytics ==
    \/ \E t \in AnalyticsThreads, op \in AnalyticsOps, c \in Channels :
            AnalyticsCall(t, op, c)
    \/ \E t \in AnalyticsThreads : RecordTotal(t)
    \/ \E t \in AnalyticsThreads : RecordChannel(t)
    \/ \E t \in AnalyticsThreads : ResetTotals(t)
    \/ \E t \in AnalyticsThreads : ResetChannelCounts(t)
    \/ \E t \in AnalyticsThreads : ReadLocked(t)
    \/ \E t \in AnalyticsThreads : SummaryTotalFailed(t)
    \/ \E t \in AnalyticsThreads : SummaryByChannel(t)

SpecAnalytics == InitAnalytics /\ [][NextAnalytics]_vars

\* the counters a reader returned agree with each other
Consistent(seen) ==
    /\ seen.total_sent = SumOver([c \in Channels |-> seen.by_channel[c].sent], Channels)
    /\ seen.total_failed = SumOver([c \in Channels |-> seen.by_channel[c].failed], Channels)

\* C32: under any interleaving of record_sent, record_failed and reset no
\* increment is lost, and every reader (get_channel_stats,
\* get_success_rate, summary) returns counters in which total_sent is the
\* sum of the per-channel sent counts and total_failed the sum of the
\* per-channel failed counts
C32_ReadersSeeConsistentCounters ==
    /\ analytics.lock = 0 =>
            /\ analytics.total_sent = analytics.recorded.sent
            /\ analytics.total_failed = analytics.recorded.failed
    /\ \A t \in AnalyticsThreads :
            (analytics.threads[t].pc = "done"
                /\ analytics.threads[t].op \in
                        {"get_channel_stats", "get_success_rate", "summary"})
                => Consistent(analytics.threads[t].seen)

\* what the lock gives: whenever it is free the totals are the sums of the
\* per-channel counts and count every record call since the latest reset,
\* and the readers that hold it return such counters
LockedCountersAgree ==
    /\ analytics.lock = 0 =>
            /\ analytics.total_sent = analytics.recorded.sent
            /\ analytics.total_failed = analytics.recorded.failed
            /\ analytics.total_sent = SumOver(analytics.channel_sent, Channels)
            /\ analytics.total_failed = SumOver(analytics.channel_failed, Channels)
    /\ \A t \in AnalyticsThreads :
            (analytics.threads[t].pc = "done"
                /\ analytics.threads[t].op \in
                        {"get_channel_stats", "get_success_rate"})
                => Consistent(analytics.threads[t].seen)

\* ---------------------------------------------------------------------
\* C33: rule registration is idempotent by name: after any sequence of
\* add_rule and remove_rule calls the rule list holds at most one rule of
\* each name, so that rules_count (the length of the list) counts names
C33_OneRulePerName ==
    \A i, j \in 1..Len(rules) : rules[i].name = rules[j].name => i = j

\* what add_rule does instead: every call appends, so the list holds one
\* rule per call whose name has not been removed since
RulesCountCountsCalls ==
    /\ Len(rules) = Len(added)
    /\ \A r \in Range(added) : \E i \in 1..Len(rules) : rules[i] = r

\* ---------------------------------------------------------------------
\* process_due awaited by two coroutines side by side.  A step is what one
\* coroutine runs between two awaits: process_due up to its await of the
\* gather, each task of the gather up to its await of send_fn, and the rest
\* of _execute_entry after it.

OverlapFrame ==
    UNCHANGED <<EngineVars, LimiterVars, utcnow, jobs, store, cli, gathers,
                codec, analytics, renderer, api>>

\* process_due from its first line to await asyncio.gather(*tasks): the due
\* snapshot is taken and one task per due entry is handed to the loop
PollSnapshot(p) ==
    /\ polls[p].pc \in {"idle", "returned"}
    /\ LET due == get_due
       IN polls' = [polls EXCEPT ![p] =
                IF due = <<>>
                THEN [IdlePoll EXCEPT !.pc = "returned"]
                ELSE [pc |-> "gathering", due |-> due, unstarted |-> due,
                      pending |-> {}, result |-> 0]]
    /\ UNCHANGED scheduler
    /\ OverlapFrame

\* the loop runs the next task of the gather: _execute_entry up to
\* await self._send_fn(...), or to its end without a send_fn
TaskStart(p) ==
    /\ polls[p].pc = "gathering"
    /\ polls[p].unstarted # <<>>
    /\ LET id == Head(polls[p].unstarted)
       IN /\ scheduler.entries[id].sends < MaxRunCount
          /\ scheduler.entries[id].run_count < MaxRunCount
          /\ IF scheduler.send_fn
             THEN /\ scheduler' = [scheduler EXCEPT !.entries[id].sends = @ + 1]
                  /\ polls' = [polls EXCEPT ![p].unstarted = Tail(@),
                                            ![p].pending = @ \cup {id}]
             ELSE /\ scheduler' = [scheduler EXCEPT !.entries[id] =
                        ExecutedWithoutSendFn(@, scheduler.callbacks)]
                  /\ polls' = [polls EXCEPT ![p].unstarted = Tail(@)]
    /\ OverlapFrame

\* send_fn comes back to the task of entry id in the gather of p
SendReturn(p, id, o) ==
    /\ id \in polls[p].pending
    /\ scheduler.entries[id].run_count < MaxRunCount
    /\ scheduler' = [scheduler EXCEPT !.entries[id] =
                        Executed(@, o, scheduler.callbacks)]
    /\ polls' = [polls EXCEPT ![p].pending = @ \ {id}]
    /\ OverlapFrame

\* every task of the gather is done: return len(due)
PollReturn(p) ==
    /\ polls[p].pc = "gathering"
    /\ polls[p].unstarted = <<>>
    /\ polls[p].pending = {}
    /\ polls' = [polls EXCEPT ![p].pc = "returned",
                              ![p].result = Len(polls[p].due)]
    /\ UNCHANGED scheduler
    /\ OverlapFrame

\* ---------------------------------------------------------------------
\* SpecOverlap: one-shot and recurring entries, cancel at any moment, and
\* the worker and a direct caller awaiting process_due side by side.

InitOverlap == InitScheduler

NoPollYet == utcnow = 1 /\ \A p \in PollCallers : polls[p].pc = "idle"

NextOverlap ==
    \/ NoPollYet /\ schedule_at(utcnow - 1)
    \/ \E max_runs \in 1..MaxRuns : NoPollYet /\ schedule_recurring(1, 0, max_runs)
    \/ \E id \in EntryIds : cancel(id)
    \/ \E p \in PollCallers : PollSnapshot(p)
    \/ \E p \in PollCallers : TaskStart(p)
    \/ \E p \in PollCallers, id \in EntryIds, o \in {"ok", "raise"} :
            SendReturn(p, id, o)
    \/ \E p \in PollCallers : PollReturn(p)
    \/ utcnow < MaxPollClock /\ UtcAdvance(1)

SpecOverlap == InitOverlap /\ [][NextOverlap]_vars

\* entry id is held by a process_due: in its snapshot and not yet done
Held(id) ==
    \E p \in PollCallers :
        id \in Range(polls[p].unstarted) \cup polls[p].pending

\* C34: once cancel(id) has returned true the entry stays cancelled and
\* send_fn is not called for it any more, also when the cancel comes while
\* the entry is suspended in send_fn or between the due snapshot and the
\* start of its task
C34_CancelledStaysCancelled ==
    [][\A id \in DOMAIN scheduler.entries :
            scheduler.entries[id].status = "cancelled"
                => /\ scheduler'.entries[id].status = "cancelled"
                   /\ scheduler'.entries[id].sends = scheduler.entries[id].sends]_vars

\* what cancel does give: an entry cancelled while no process_due holds it
\* stays cancelled and is not sent
CancelledAtRestStays ==
    [][\A id \in DOMAIN scheduler.entries :
            (scheduler.entries[id].status = "cancelled" /\ ~Held(id))
                => /\ scheduler'.entries[id].status = "cancelled"
                   /\ scheduler'.entries[id].sends = scheduler.entries[id].sends
                   /\ ~Held(id)']_vars

\* C35: a one-shot entry is sent at most once and a recurring entry with
\* max_runs = m > 0 at most m times, also when process_due is awaited by the
\* worker and by a direct caller side by side
C35_RunsWithinBudget ==
    \A id \in DOMAIN scheduler.entries :
        LET E == scheduler.entries[id]
        IN /\ ~E.recurring => (E.sends <= 1 /\ E.run_count <= 1)
           /\ (E.recurring /\ E.max_runs > 0)
                => (E.sends <= E.max_runs /\ E.run_count <= E.max_runs)

\* ---------------------------------------------------------------------
\* The template engine (templates.py).  string_templates is
\* _string_templates, cache the compiled templates that _string_env keeps by
\* name (jinja2's Environment caches what get_template loaded and asks the
\* loader's uptodate function before it uses a cached template), files the
\* names in template_dir; the files do not change.

RenderFrame ==
    UNCHANGED <<EngineVars, LimiterVars, utcnow, scheduler, jobs, store, cli,
                gathers, codec, analytics, api, polls>>

\* TemplateEngine(template_dir), the directory holding files
TemplateEngine(files) ==
    /\ renderer.pc = "idle"
    /\ renderer' = [NoRenderer EXCEPT !.pc = "ready", !.files = files]
    /\ RenderFrame

\* register(name, template_str)
register(name, template_str) ==
    /\ renderer.pc = "ready"
    /\ renderer' = [renderer EXCEPT !.string_templates[name] = template_str,
                                    !.op = "register", !.name = name,
                                    !.result = "None"]
    /\ RenderFrame

\* unregister(name) of the engine of this section
unregister_template(name) ==
    /\ renderer.pc = "ready"
    /\ renderer' = [renderer EXCEPT !.string_templates[name] = Absent,
                        !.op = "unregister", !.name = name,
                        !.result = IF renderer.string_templates[name] # Absent
                                   THEN "True" ELSE "False"]
    /\ RenderFrame

\* StringLoader.get_source: the third item of its result, lambda: True
UpToDate == TRUE

\* the text of a file template, and of a rendering: what a template string
\* renders to with the variables
FileText == "FILE version"
Rendered(text, variables) ==
    [raised |-> "", template |-> text, variables |-> variables]

\* render raises exc
Raised(exc) == [raised |-> exc, template |-> Absent, variables |-> 0]

\* _string_env.get_template(name): the cached template when there is one
\* and it is up to date, else the source that the loader returns
GetTemplate(name) ==
    IF renderer.cache[name] # Absent /\ UpToDate
    THEN renderer.cache[name]
    ELSE renderer.string_templates[name]

\* render(template_name, variables)
render(name, variables) ==
    /\ renderer.pc = "ready"
    /\ renderer' =
        IF renderer.string_templates[name] # Absent
        THEN [renderer EXCEPT !.cache[name] = GetTemplate(name),
                              !.op = "render", !.name = name,
                              !.result = Rendered(GetTemplate(name), variables)]
        ELSE IF name \in renderer.files
        THEN [renderer EXCEPT !.op = "render", !.name = name,
                              !.result = Rendered(FileText, variables)]
        ELSE [renderer EXCEPT !.op = "render", !.name = name,
                              !.result = Raised("TemplateNotFound")]
    /\ RenderFrame

\* ---------------------------------------------------------------------
\* SpecTemplates: one TemplateEngine over a directory, and register,
\* unregister and render in any order.

InitTemplates == InitOf({DefaultMaxRetries}, {DefaultRetryDelay}, {})

NextTemplates ==
    \/ \E files \in SUBSET {"msg.txt"} : TemplateEngine(files)
    \/ \E n \in LoaderNames, s \in TemplateTexts : register(n, s)
    \/ \E n \in LoaderNames : unregister_template(n)
    \/ \E n \in LoaderNames, v \in {1, 2} : render(n, v)

SpecTemplates == InitTemplates /\ [][NextTemplates]_vars

\* C36: render(name, vars) renders the template string most recently
\* registered under the name, whatever was registered, unregistered and
\* rendered before, and a name registered in memory is rendered from memory
\* even when a file of the name exists
C36_RendersLatestRegistration ==
    (renderer.op = "render" /\ renderer.string_templates[renderer.name] # Absent)
        => /\ renderer.result.raised = ""
           /\ renderer.result.template = renderer.string_templates[renderer.name]

\* memory wins over files: a name registered in memory is rendered from a
\* string registered under it, the latest one when the name had not been
\* rendered before, and never from the file
MemoryWinsOverFile ==
    (renderer.op = "render" /\ renderer.string_templates[renderer.name] # Absent)
        => /\ renderer.result.raised = ""
           /\ renderer.result.template \in TemplateTexts
           /\ renderer.result.template = renderer.cache[renderer.name]

\* ---------------------------------------------------------------------
\* C37: a bucket that admits a check gives one token to it, and the denial
\* of a later bucket of the same check leaves the buckets that admitted it
\* as they are: a check denied by the channel's bucket has taken one token
\* from the global bucket, one denied by the target's bucket one from the
\* global and one from the channel's.  No bucket ever gets a token back: its
\* tokens grow by its own refill only, and total_consumed never falls.
C37_DeniedCheckKeepsItsTokens ==
    [][/\ \A t \in LimiterThreads :
            LET T == threads[t]
                U == threads'[t]
            IN (T.op = "check" /\ U.op = "check"
                    /\ Len(U.trace) = Len(T.trace) + 1) =>
                LET answer == U.trace[Len(U.trace)]
                    b == answer.bucket
                IN /\ answer.admitted =>
                        /\ buckets'[b].tokens = buckets[b].tokens - 1
                        /\ buckets'[b].total_consumed = buckets[b].total_consumed + 1
                   /\ ~answer.admitted =>
                        /\ U.pc = "done" /\ ~U.result
                        /\ buckets'[b].tokens = buckets[b].tokens
                        /\ \A i \in 1..Len(T.trace) :
                                /\ T.trace[i].admitted
                                /\ T.trace[i].bucket # b
                                /\ buckets'[T.trace[i].bucket] = buckets[T.trace[i].bucket]
       /\ \A b \in DOMAIN buckets :
            /\ buckets'[b].total_consumed >= buckets[b].total_consumed
            /\ buckets'[b].tokens > buckets[b].tokens =>
                    /\ buckets[b].lock = 0 /\ buckets'[b].lock # 0
                    /\ buckets'[b].tokens = Refilled(buckets[b], now).tokens]_vars

\* a check was admitted by the global bucket and by the channel's and then
\* denied by the target's
C37_Witness ==
    \E t \in LimiterThreads :
        /\ threads[t].pc = "done"
        /\ threads[t].op = "check"
        /\ ~threads[t].result
        /\ Len(threads[t].trace) = 3
        /\ buckets[threads[t].trace[1].bucket].total_consumed >= 1
        /\ buckets[threads[t].trace[2].bucket].total_consumed >= 1

\* ---------------------------------------------------------------------
\* SpecRedrive: the middleware and rules of SpecRouting, with dead letters
\* retried.

InitRedrive == InitRouting

NextRedrive ==
    \/ \E ch \in Channels : RouteNew(1, ch, 0)
    \/ \E m \in 1..MaxMsgs : RouteAgain(1, m)
    \/ \E o \in RoutingOutcomes : AdapterReturn(1, o)
    \/ \E ch \in Channels : register_channel(ch)
    \/ \E k \in MarkKinds :
          (\A i \in 1..Len(middleware) : middleware[i] # k) /\ add_middleware(k)
    \/ \E r \in RoutingRules :
          (\A i \in 1..Len(rules) : rules[i].name # r.name) /\ add_rule(r)
    \/ \E i \in 1..MaxTotal : retry_dead_letter(1, i)

SpecRedrive == InitRedrive /\ [][NextRedrive]_vars

\* the content that the middleware chain makes of content c: every
\* middleware of SpecRedrive appends its mark
Marked(c) == c \o middleware

\* C38: retry_dead_letter runs the whole pipeline on the stored message as
\* the failed dispatch left it: the middleware chain writes its marks once
\* more, the rules are matched against the result and the transform of the
\* matching rule is applied once more, and the reset leaves last_error of
\* the message as it was
C38_RetryRunsPipelineAgain ==
    [][RetryStep(1) =>
        LET m == tasks'[1].orig
            old == msgs[m]
            r == match_rule([old EXCEPT !.content = Marked(@),
                                        !.status = PENDING, !.retry_count = 0])
            sent == tasks'[1].msg
        IN /\ \E i \in 1..Len(dead_letter_queue) : dead_letter_queue[i].message = m
           /\ old.last_error # "None"
           /\ msgs'[m].last_error = old.last_error
           /\ msgs'[sent].last_error = old.last_error
           /\ msgs'[sent].content =
                    IF r > 0 /\ rules[r].transform = "prefix"
                    THEN <<"URGENT">> \o Marked(old.content)
                    ELSE Marked(old.content)
           /\ r > 0 => tasks'[1].channel = rules[r].target_channel
           /\ r = 0 => tasks'[1].channel = old.to_channel]_vars

\* a retried message carries the mark of the middleware and the prefix of
\* the rule twice, and the error of its first dispatch
C38_Witness ==
    /\ tasks[1].retried
    /\ tasks[1].pc = "sending"
    /\ tasks[1].msg = tasks[1].orig
    /\ msgs[tasks[1].msg].content = <<"URGENT", "URGENT", "a", "a">>
    /\ msgs[tasks[1].msg].last_error = "E1"

\* ---------------------------------------------------------------------
\* The dead-letter operations (router.py 239-247), called between two
\* steps of the dispatches.

DeadLetterFrame ==
    UNCHANGED <<msgs, rules, added, middleware, handlers, max_retries,
                retry_delay, stats, tasks, templates, LimiterVars, utcnow,
                scheduler, jobs, store, cli, gathers, codec, analytics,
                renderer, polls>>

\* DeadLetterEntry.to_dict: message is the dict of the message as it is at
\* the time of the call (failed_at is not modelled)
DeadLetterToDict(entry) ==
    [message |-> [id |-> entry.message,
                  status |-> msgs[entry.message].status,
                  retry_count |-> msgs[entry.message].retry_count],
     error |-> entry.error, retry_count |-> entry.retry_count]

\* q[-limit:] for limit >= 0: -0 is 0, the start of the list, and a start
\* before the list is its start
LastSlice(q, limit) ==
    LET from == IF limit = 0 THEN 0
                ELSE IF limit > Len(q) THEN 0 ELSE Len(q) - limit
    IN SubSeq(q, from + 1, Len(q))

\* get_dead_letters(limit)
get_dead_letters(limit) ==
    /\ api' = [op |-> "get_dead_letters", limit |-> limit, count |-> 0,
               result |-> [i \in DOMAIN LastSlice(dead_letter_queue, limit) |->
                    DeadLetterToDict(LastSlice(dead_letter_queue, limit)[i])]]
    /\ UNCHANGED dead_letter_queue
    /\ DeadLetterFrame

\* clear_dead_letters()
clear_dead_letters ==
    /\ api' = [op |-> "clear_dead_letters", limit |-> 0, result |-> <<>>,
               count |-> Len(dead_letter_queue)]
    /\ dead_letter_queue' = <<>>
    /\ DeadLetterFrame

\* ---------------------------------------------------------------------
\* SpecDeadLetters: dispatches that fail, one after the other, and the
\* dead-letter queue listed and cleared in between.

\* the limits asked for
MaxLimit == 3

InitDeadLetters == InitWith({0}, {DefaultRetryDelay})

NextDeadLetters ==
    \/ \E ch \in Channels : RouteNew(1, ch, 0)
    \/ \E o \in RoutingOutcomes : AdapterReturn(1, o)
    \/ \E ch \in Channels : register_channel(ch)
    \/ \E limit \in 0..MaxLimit : get_dead_letters(limit)
    \/ clear_dead_letters

SpecDeadLetters == InitDeadLetters /\ [][NextDeadLetters]_vars

\* the latest call of a dead-letter operation is made in this step
Calling(op) == api' # api /\ api'.op = op

\* dicts ds are the last n entries of the queue, in queue order
LastEntries(ds, n) ==
    /\ Len(ds) = n
    /\ \A i \in 1..n :
            LET entry == dead_letter_queue[Len(dead_letter_queue) - n + i]
            IN /\ ds[i].message.id = entry.message
               /\ ds[i].error = entry.error
               /\ ds[i].retry_count = entry.retry_count

\* C39: get_dead_letters(limit) returns the min(limit, len) most recently
\* appended entries in queue order, for every limit >= 0, and leaves the
\* queue as it is; clear_dead_letters returns the number of entries it
\* removed and leaves the queue empty
C39_ListIsPagedAndClearCounts ==
    [][/\ Calling("get_dead_letters") =>
            /\ LastEntries(api'.result, Min(api'.limit, Len(dead_letter_queue)))
            /\ dead_letter_queue' = dead_letter_queue
       /\ Calling("clear_dead_letters") =>
            /\ api'.count = Len(dead_letter_queue)
            /\ dead_letter_queue' = <<>>]_vars

\* what holds: the same for every limit >= 1, and for clear
PositiveLimitIsPaged ==
    [][/\ (Calling("get_dead_letters") /\ api'.limit >= 1) =>
            /\ LastEntries(api'.result, Min(api'.limit, Len(dead_letter_queue)))
            /\ dead_letter_queue' = dead_letter_queue
       /\ (Calling("get_dead_letters") /\ api'.limit = 0) =>
            /\ LastEntries(api'.result, Len(dead_letter_queue))
            /\ dead_letter_queue' = dead_letter_queue
       /\ Calling("clear_dead_letters") =>
            /\ api'.count = Len(dead_letter_queue)
            /\ dead_letter_queue' = <<>>]_vars

\* the queue held two entries when a limit of one was asked for
PagedOnce ==
    /\ api.op = "get_dead_letters"
    /\ api.limit = 1
    /\ Len(api.result) = 1
    /\ Len(dead_letter_queue) = 2

\* ---------------------------------------------------------------------
\* SpecLive: dispatches and broadcasts that interleave on the event loop,
\* with an async middleware, retries and backoff, channels with and without
\* adapter.  The event loop runs every coroutine that is ready, time
\* passes, and every call of a middleware or an adapter comes back.

InitLive == InitWith({0}, {DefaultRetryDelay})

NextLive ==
    \/ \E t \in Tasks, ch \in Channels, mr \in PipelineRetries : RouteNew(t, ch, mr)
    \/ \E t \in Tasks : MiddlewareReturn(t)
    \/ \E t \in Tasks, o \in CoreOutcomes : AdapterReturn(t, o)
    \/ Tick
    \/ \E t \in Tasks : Wake(t)
    \/ \E chs \in {<<"telegram", "slack">>} : broadcast(chs, 0)
    \/ \E t \in Tasks : StartCopy(t)
    \/ stats.total = 0 /\ register_channel("telegram")
    \/ stats.total = 0 /\ middleware = <<>> /\ add_middleware("async")

FairLoop ==
    /\ \A t \in Tasks : WF_vars(MiddlewareReturn(t))
    /\ \A t \in Tasks : WF_vars(\E o \in CoreOutcomes : AdapterReturn(t, o))
    /\ WF_vars(Tick)
    /\ \A t \in Tasks : WF_vars(Wake(t))
    /\ \A t \in Tasks : WF_vars(StartCopy(t))

SpecLive == InitLive /\ [][NextLive]_vars /\ FairLoop

\* route has returned to task t: a success with the message sent, the
\* failure of every attempt with the message dead, or the no-handler failure
Returns(t) ==
    LET T == tasks[t]
    IN /\ T.pc = "done"
       /\ \/ T.result.success /\ Status(T.msg) = SENT
          \/ /\ ~T.result.success
             /\ T.result.error.kind = "all_failed"
             /\ Status(T.msg) = DEAD
          \/ ~T.result.success /\ T.result.error.kind = "no_handler"

\* C40: every dispatch that has begun returns a result after finitely many
\* steps, with its message sent or dead or with the no-handler failure,
\* whatever the other dispatches do meanwhile
C40_EveryDispatchReturns ==
    \A t \in Tasks : (~Free(t)) ~> Returns(t)

\* a dispatch has returned after a retry while another one is in its backoff
C40_Witness ==
    /\ Returns(1)
    /\ tasks[1].calls = 2
    /\ tasks[2].pc = "backoff"

====
